---- MODULE Spec2Model ----
(***************************************************************************)
(* A state-machine model of the Bilibili-EN client.  Each subsystem of the  *)
(* program (application shell feed loader, video player side loads, login   *)
(* modal, authentication service, capability probes) owns a group of        *)
(* variables and a group of actions; every subsystem has its own            *)
(* specification, in which the other subsystems stay in their quiet state.  *)
(***************************************************************************)
EXTENDS Integers, Sequences, FiniteSets, TLC

VARIABLES
    \* ---- Application Shell (src/src/App.tsx, function App) ----
    mounted,            \* the "Initial load" effect has run
    feedKeyRef,         \* feedKeyRef.current
    pendingCountRef,    \* pendingCountRef.current
    loading,            \* useState loading
    initialLoad,        \* useState initialLoad
    videos,             \* useState videos: sequence of bvids
    hasMore,            \* useState hasMore
    error,              \* useState error: "" stands for null
    viewMode,           \* useState viewMode
    selectedCategory,   \* useState selectedCategory
    searchQuery,        \* useState searchQuery
    searchFilters,      \* useState searchFilters
    page,               \* useState page
    feedInFlight,       \* the awaited getTrending/getVideosByCategory/searchVideos calls, in issue order
    feedLast,           \* history: what the last shell step was
    \* ---- VideoPlayer (src/src/components/VideoPlayer.tsx) ----
    video,              \* the video prop: None while no player is mounted
    comments,           \* useState comments: sequence of rpids
    commentsTotal,      \* useState commentsTotal
    hasMoreComments,    \* useState hasMoreComments
    nextCursor,         \* useState nextCursor: None stands for undefined
    commentsRequireLogin, \* useState commentsRequireLogin
    commentsError,      \* useState commentsError: "" stands for null
    loadingComments,    \* useState loadingComments
    loadingMoreComments, \* useState loadingMoreComments
    latestAidRef,       \* latestAidRef.current: None stands for null
    relatedVideos,      \* useState relatedVideos: sequence of bvids
    loadingRelated,     \* useState loadingRelated
    commentsInFlight,   \* the awaited getVideoComments calls of the mounted player
    relatedInFlight,    \* the pending getRelatedVideos promises of the mounted player
    playerLast,         \* history: what the last player step was
    \* ---- Platform markers (the window object) ----
    tauriGlobal,        \* window.__TAURI__ is present
    tauriInternals,     \* window.__TAURI_INTERNALS__ is present
    \* ---- Header + LoginModal (src/src/components/Header.tsx, src/unnamed/part_002) ----
    loginMounted,       \* the Header (and the LoginModal it always renders) is mounted
    showLoginModal,     \* Header useState showLoginModal, the modal's isOpen prop
    qrCode,             \* useState qrCode: None, or Some(qrcode_key)
    loginStatus,        \* useState status
    loginError,         \* useState error: "" stands for null
    pollIntervalRef,    \* pollIntervalRef.current: None, or Some(key its pollStatus closure polls)
    qrFetchInFlight,    \* number of awaited getLoginQRCode calls
    pollsInFlight,      \* keys of the awaited checkQRCodeStatus calls
    successTimers,      \* keys whose 1000 ms success timeout is pending
    nextQrKey,          \* the key the passport host hands out next
    loginLast,          \* history: what the last login step was
    pollingEntitled,    \* history: a QR payload was obtained since the modal was last opened
    settledKeys,        \* history: keys for which a poll returned 0 or 86038
    successCalls,       \* history: per key, how often onLoginSuccess ran (2 = more than once)
    \* ---- Auth service (src/unnamed/part_008) and the API client's cookie ----
    storedCookies,      \* bilibili.ts storedCookies: a cookie string, <<>> for ''
    localStorageAuth,   \* window.localStorage['bilibili_auth']: None or Some(value)
    store,              \* the cached Store handle: None, or Some(its 'bilibili_auth' entry)
    authFile,           \* the entry saved in auth.json on disk: None or Some(cookies)
    authLast,           \* history: the last auth call and what it was given
    \* ---- Native-shell capability checks of the modules ----
    capability,         \* per module: "unevaluated", or the branch its check selected
    \* ---- Downloader (src/src/services/download.ts) ----
    downloads,          \* the downloadVideo calls made so far, each with its position
    activeDownloads,    \* the activeDownloads map: per bvid None, or Some(call whose controller it holds)
    \* ---- Navigation state of the shell (src/src/App.tsx, lines 275-283) ----
    selectedVideo,      \* useState selectedVideo: None, or Some(bvid of the open video)
    playlistContext,    \* useState playlistContext: None, or Some([videos, currentIndex])
    selectedChannel,    \* useState selectedChannel is set: the channel panel is open
    openPanel,          \* which of the show...Panel flags is set: "none" if none
    navLast,            \* history: the navigation path of the last step
    \* ---- History service (src/unnamed/part_007) ----
    historyStore,       \* the stored watch history, newest first: the bvids of its entries
    historyCalls,       \* number of history service calls made
    historyLast,        \* history: the last history service call and what it found
    \* ---- Favorites and subscriptions services (src/src/services/favorites.ts, subscriptions.ts) ----
    collections,        \* per service the stored list, newest first: entries [key, at]
    clock,              \* Date.now() of the next call
    collectionLast,     \* history: the last call of one of the two services
    firstAdd,           \* history: per service and key, when add was first called since the key was last removed, and whether again
    \* ---- Playlist service (src/src/services/playlist.ts) ----
    playlists,          \* the stored playlists: entries [id, name, videos]
    nextPlaylistId,     \* the id createPlaylist generates next
    playlistLast,       \* history: the last playlist service call and what it returned
    \* ---- Settings service (src/src/services/settings.ts) ----
    DEFAULT_SETTINGS,   \* the module-level DEFAULT_SETTINGS object, as it is now
    settingsStore,      \* the stored settings: None, or Some(record), possibly lacking keys
    settingsLast,       \* history: the last settings service call
    translateCache,    \* TRANSLATE_CACHE: entries in insertion order
    translations,      \* the translate calls made so far
    justFinished,      \* the call that returned in the last step, 0 if none
    cacheWriter,       \* history: per cache key, the direction that wrote it last
    batches,           \* the translateBatch calls made so far
    resolved,          \* the last resolveHasMore call: its arguments and its value
    commentsCall,      \* the getVideoComments call under way or returned last
    channelMounted,    \* a ChannelPanel is mounted
    channelVideos,     \* useState videos: the bvids of the list
    channelPage,       \* useState page
    channelTotal,      \* useState total
    channelHasMore,    \* useState hasMore
    channelLoading,    \* useState loading
    channelLoadingMore, \* useState loadingMore
    channelError,      \* useState error: "" for null
    channelRequests,   \* the awaited requests of the mounted panel
    channelLast,       \* history: what the last panel step was
    keysOpen,          \* a VideoPlayer is mounted
    isVideoFullscreen, \* useState isVideoFullscreen
    showDownloadMenu,  \* useState showDownloadMenu
    showShortcuts,     \* useState showShortcuts
    qualities,         \* useState qualities: the length of the list
    downloadProgress,  \* useState downloadProgress: None, or the status shown
    qualityRequests,   \* getAvailableQualities calls not yet resolved
    keyDownloads,      \* history: the last status of each download started here
    keysLast,          \* history: the last step and the layers before it
    hookMounted,       \* the component that uses useAuth is mounted
    authUser,          \* useState user: a user is present
    authLoading,       \* useState loading
    authChecks,        \* the checkAuth calls that have not finished
    sessionCookie,     \* the API client holds the cookie of a signed-in session
    savedSession,      \* the store holds such a cookie
    logoutsInFlight,   \* logout calls awaiting authLogout
    hookLast,          \* history: the last step of the hook
    favoritesMounted,  \* the component that uses useFavorites is mounted
    favorites,         \* useState favorites: the bvids of the list
    favoritesLoading,  \* useState loading
    favoritesStore,    \* the list under 'favorites' of favorites.json
    favoriteCalls,     \* the calls of the hook that have not finished
    mutatorCalls,      \* how many mutator calls were issued
    toggleLog,         \* history: the mutator calls and what held when they were issued
    settingsMounted,   \* the component that uses useSettings is mounted
    hookSettings,      \* useState settings
    renderedSettings,  \* the settings the current updateSetting closes over
    settingsLoading,   \* useState loading
    savedSettings,     \* the record under 'settings' of settings.json
    settingsCalls,     \* the calls of the hook that have not finished
    updateLog          \* history: the updateSetting calls issued

feedVars == <<mounted, feedKeyRef, pendingCountRef, loading, initialLoad, videos, hasMore,
              error, viewMode, selectedCategory, searchQuery, searchFilters, page,
              feedInFlight, feedLast>>

playerVars == <<video, comments, commentsTotal, hasMoreComments, nextCursor,
                commentsRequireLogin, commentsError, loadingComments, loadingMoreComments,
                latestAidRef, relatedVideos, loadingRelated, commentsInFlight,
                relatedInFlight, playerLast>>

platformVars == <<tauriGlobal, tauriInternals>>

loginVars == <<loginMounted, showLoginModal, qrCode, loginStatus, loginError,
               pollIntervalRef, qrFetchInFlight, pollsInFlight, successTimers, nextQrKey,
               loginLast, pollingEntitled, settledKeys, successCalls>>

authVars == <<storedCookies, localStorageAuth, store, authFile, authLast>>

downloadVars == <<downloads, activeDownloads>>

navVars == <<selectedVideo, playlistContext, selectedChannel, openPanel, navLast>>

historyVars == <<historyStore, historyCalls, historyLast>>

collectionVars == <<collections, clock, collectionLast, firstAdd>>

playlistVars == <<playlists, nextPlaylistId, playlistLast>>

settingsVars == <<DEFAULT_SETTINGS, settingsStore, settingsLast>>

translateVars == <<translateCache, translations, justFinished, cacheWriter, batches>>

hasMoreVars == <<resolved>>

commentsApiVars == <<commentsCall>>

channelVars == <<channelMounted, channelVideos, channelPage, channelTotal, channelHasMore, channelLoading, channelLoadingMore, channelError, channelRequests, channelLast>>

playerKeysVars == <<keysOpen, isVideoFullscreen, showDownloadMenu, showShortcuts, qualities, downloadProgress, qualityRequests, keyDownloads, keysLast>>

useAuthVars == <<hookMounted, authUser, authLoading, authChecks, sessionCookie, savedSession, logoutsInFlight, hookLast>>

favoritesHookVars == <<favoritesMounted, favorites, favoritesLoading, favoritesStore, favoriteCalls, mutatorCalls, toggleLog>>

settingsHookVars == <<settingsMounted, hookSettings, renderedSettings, settingsLoading, savedSettings, settingsCalls, updateLog>>

vars == <<feedVars, playerVars, platformVars, loginVars, authVars, capability, downloadVars, navVars, historyVars, collectionVars, playlistVars, settingsVars, translateVars, hasMoreVars, commentsApiVars, channelVars, playerKeysVars, useAuthVars, favoritesHookVars, settingsHookVars>>

\* What the actions of one subsystem leave alone.
outsideFeed ==
    <<playerVars, platformVars, loginVars, authVars, capability, downloadVars, navVars, historyVars, collectionVars, playlistVars, settingsVars, translateVars, hasMoreVars, commentsApiVars, channelVars, playerKeysVars, useAuthVars, favoritesHookVars, settingsHookVars>>
outsidePlayer ==
    <<feedVars, platformVars, loginVars, authVars, capability, downloadVars, navVars, historyVars, collectionVars, playlistVars, settingsVars, translateVars, hasMoreVars, commentsApiVars, channelVars, playerKeysVars, useAuthVars, favoritesHookVars, settingsHookVars>>
outsideLogin ==
    <<feedVars, playerVars, platformVars, authVars, capability, downloadVars, navVars, historyVars, collectionVars, playlistVars, settingsVars, translateVars, hasMoreVars, commentsApiVars, channelVars, playerKeysVars, useAuthVars, favoritesHookVars, settingsHookVars>>
outsideAuth ==
    <<feedVars, playerVars, platformVars, loginVars, capability, downloadVars, navVars, historyVars, collectionVars, playlistVars, settingsVars, translateVars, hasMoreVars, commentsApiVars, channelVars, playerKeysVars, useAuthVars, favoritesHookVars, settingsHookVars>>
outsideDownload ==
    <<feedVars, playerVars, platformVars, loginVars, authVars, capability, navVars, historyVars, collectionVars, playlistVars, settingsVars, translateVars, hasMoreVars, commentsApiVars, channelVars, playerKeysVars, useAuthVars, favoritesHookVars, settingsHookVars>>
outsideNav ==
    <<feedVars, playerVars, platformVars, loginVars, authVars, capability, downloadVars, historyVars, collectionVars, playlistVars, settingsVars, translateVars, hasMoreVars, commentsApiVars, channelVars, playerKeysVars, useAuthVars, favoritesHookVars, settingsHookVars>>
outsideHistory ==
    <<feedVars, playerVars, platformVars, loginVars, authVars, capability, downloadVars, navVars, collectionVars, playlistVars, settingsVars, translateVars, hasMoreVars, commentsApiVars, channelVars, playerKeysVars, useAuthVars, favoritesHookVars, settingsHookVars>>
outsideCollections ==
    <<feedVars, playerVars, platformVars, loginVars, authVars, capability, downloadVars, navVars, historyVars, playlistVars, settingsVars, translateVars, hasMoreVars, commentsApiVars, channelVars, playerKeysVars, useAuthVars, favoritesHookVars, settingsHookVars>>
outsidePlaylists ==
    <<feedVars, playerVars, platformVars, loginVars, authVars, capability, downloadVars, navVars, historyVars, collectionVars, settingsVars, translateVars, hasMoreVars, commentsApiVars, channelVars, playerKeysVars, useAuthVars, favoritesHookVars, settingsHookVars>>
outsideSettings ==
    <<feedVars, playerVars, platformVars, loginVars, authVars, capability, downloadVars, navVars, historyVars, collectionVars, playlistVars, translateVars, hasMoreVars, commentsApiVars, channelVars, playerKeysVars, useAuthVars, favoritesHookVars, settingsHookVars>>
outsideTranslate ==
    <<feedVars, playerVars, platformVars, loginVars, authVars, capability, downloadVars, navVars, historyVars, collectionVars, playlistVars, settingsVars, hasMoreVars, commentsApiVars, channelVars, playerKeysVars, useAuthVars, favoritesHookVars, settingsHookVars>>
outsideHasMore ==
    <<feedVars, playerVars, platformVars, loginVars, authVars, capability, downloadVars, navVars, historyVars, collectionVars, playlistVars, settingsVars, translateVars, commentsApiVars, channelVars, playerKeysVars, useAuthVars, favoritesHookVars, settingsHookVars>>
outsideCommentsApi ==
    <<feedVars, playerVars, platformVars, loginVars, authVars, capability, downloadVars, navVars, historyVars, collectionVars, playlistVars, settingsVars, translateVars, hasMoreVars, channelVars, playerKeysVars, useAuthVars, favoritesHookVars, settingsHookVars>>
outsideChannel ==
    <<feedVars, playerVars, platformVars, loginVars, authVars, capability, downloadVars, navVars, historyVars, collectionVars, playlistVars, settingsVars, translateVars, hasMoreVars, commentsApiVars, playerKeysVars, useAuthVars, favoritesHookVars, settingsHookVars>>
outsidePlayerKeys ==
    <<feedVars, playerVars, platformVars, loginVars, authVars, capability, downloadVars, navVars, historyVars, collectionVars, playlistVars, settingsVars, translateVars, hasMoreVars, commentsApiVars, channelVars, useAuthVars, favoritesHookVars, settingsHookVars>>
outsideUseAuth ==
    <<feedVars, playerVars, platformVars, loginVars, authVars, capability, downloadVars, navVars, historyVars, collectionVars, playlistVars, settingsVars, translateVars, hasMoreVars, commentsApiVars, channelVars, playerKeysVars, favoritesHookVars, settingsHookVars>>
outsideFavoritesHook ==
    <<feedVars, playerVars, platformVars, loginVars, authVars, capability, downloadVars, navVars, historyVars, collectionVars, playlistVars, settingsVars, translateVars, hasMoreVars, commentsApiVars, channelVars, playerKeysVars, useAuthVars, settingsHookVars>>
outsideSettingsHook ==
    <<feedVars, playerVars, platformVars, loginVars, authVars, capability, downloadVars, navVars, historyVars, collectionVars, playlistVars, settingsVars, translateVars, hasMoreVars, commentsApiVars, channelVars, playerKeysVars, useAuthVars, favoritesHookVars>>
outsideCapability ==
    <<feedVars, playerVars, platformVars, loginVars, authVars, downloadVars, navVars, historyVars, collectionVars, playlistVars, settingsVars, translateVars, hasMoreVars, commentsApiVars, channelVars, playerKeysVars, useAuthVars, favoritesHookVars, settingsHookVars>>

\* An optional value: undefined is None, a present value x is Some(x).
None == <<>>
Some(x) == <<x>>

(***************************************************************************)
(* Application Shell: feed identity, pending counter, loaders               *)
(***************************************************************************)

\* Bounds of the shell model.
MaxInFlight == 2
MaxPage == 2
MaxVideoId == 2

FEED_PAGE_SIZE == 20

VideoIds == 1..MaxVideoId
\* The video lists one response may carry.
PageContents == {<<>>} \cup {<<v>> : v \in VideoIds} \cup {<<1, 2>>, <<1, 1>>}
CategoryTids == {0, 1}
\* Raw text typed into the search bar; "" and " " are blank.
RawQueries == {"", " ", "a", " a "}
DefaultFilters == [order |-> "totalrank", duration |-> 0]
FilterChoices == {DefaultFilters, [order |-> "click", duration |-> 0]}

\* String.prototype.trim on the raw texts above.
Trim(q) == CASE q = " " -> ""
             [] q = " a " -> "a"
             [] OTHER -> q

\* The results the API client may resolve with, and a rejection.
FeedResults ==
    [videos : PageContents, hasMore : {"absent", "true", "false"},
     total : {None, Some(0), Some(45)}, pageSize : {None, Some(FEED_PAGE_SIZE)},
     error : {"", "Empty response from API"}]
FeedOutcomes == [kind : {"ok"}, result : FeedResults]
                    \cup [kind : {"throw"}, message : {"Network error"}]

HomeKey == <<"home">>
CategoryKey(tid) == <<"category", tid>>
\* filters ? `${filters.order || ''}:${filters.duration || 0}` : ''
FilterKey(filters) == IF filters = None THEN <<>> ELSE <<filters[1].order, filters[1].duration>>
SearchKey(trimmed, filters) == <<"search", trimmed, FilterKey(filters)>>

\* The test every loader makes after its await: feedKeyRef.current === feedKey.
IsCurrentFeedAlways(feedKey) == TRUE
IsCurrentFeed(feedKey) == feedKeyRef = feedKey

resolveHasMoreByLength(pageNum, result) == Len(result.videos) = FEED_PAGE_SIZE
resolveHasMore(pageNum, result) ==
    IF result.hasMore # "absent" THEN result.hasMore = "true"
    ELSE LET pageSize == IF result.pageSize = None THEN FEED_PAGE_SIZE ELSE result.pageSize[1]
         IN IF result.total # None /\ result.total[1] > 0
            THEN pageNum * pageSize < result.total[1]
            ELSE Len(result.videos) = pageSize

\* History: a page-1 load of a feed marks the requests of that feed that are
\* still awaited as issued before the reset.
Superseded(requests, feedKey, reset) ==
    [j \in DOMAIN requests |->
        IF reset /\ requests[j].feedKey = feedKey
        THEN [requests[j] EXCEPT !.superseded = TRUE] ELSE requests[j]]

\* beginLoad(feedKey, reset) followed by setError(null) and the issue of the request.
BeginLoad(feedKey, pageNum, kind) ==
    LET reset == (pageNum = 1)
        fresh == reset \/ feedKeyRef # feedKey
    IN /\ Len(feedInFlight) < MaxInFlight
       /\ feedKeyRef' = IF fresh THEN feedKey ELSE feedKeyRef
       /\ pendingCountRef' = (IF fresh THEN 0 ELSE pendingCountRef) + 1
       /\ videos' = IF reset THEN <<>> ELSE videos
       /\ hasMore' = IF fresh THEN TRUE ELSE hasMore
       /\ loading' = TRUE
       /\ error' = ""
       /\ feedInFlight' = Append(Superseded(feedInFlight, feedKey, reset),
                                 [feedKey |-> feedKey, pageNum |-> pageNum, kind |-> kind,
                                  superseded |-> FALSE])
       /\ feedLast' = [kind |-> "load", stale |-> FALSE, carried |-> FALSE,
                       pageNum |-> pageNum, videos |-> <<>>, superseded |-> FALSE]
       /\ UNCHANGED initialLoad

loadTrending(pageNum) == BeginLoad(HomeKey, pageNum, "trending")
loadCategory(tid, pageNum) == BeginLoad(CategoryKey(tid), pageNum, "category")
\* loadSearch returns at once on a blank query.
loadSearch(query, pageNum, filters) ==
    IF Trim(query) = ""
    THEN UNCHANGED <<feedKeyRef, pendingCountRef, videos, hasMore, loading, error,
                     feedInFlight, feedLast, initialLoad>>
    ELSE BeginLoad(SearchKey(Trim(query), filters), pageNum, "search")

\* useEffect(() => { loadTrending(1) }, [loadTrending])
Mount ==
    /\ ~mounted
    /\ UNCHANGED outsideFeed
    /\ mounted' = TRUE
    /\ loadTrending(1)
    /\ UNCHANGED <<viewMode, selectedCategory, searchQuery, searchFilters, page>>

handleLogoClick ==
    /\ mounted
    /\ UNCHANGED outsideFeed
    /\ viewMode' = "home"
    /\ selectedCategory' = 0
    /\ searchQuery' = ""
    /\ page' = 1
    /\ loadTrending(1)
    /\ UNCHANGED <<mounted, searchFilters>>

handleCategorySelect(tid) ==
    /\ mounted
    /\ UNCHANGED outsideFeed
    /\ viewMode \in {"home", "category"}
    /\ selectedCategory' = tid
    /\ page' = 1
    /\ IF tid = 0
       THEN viewMode' = "home" /\ loadTrending(1)
       ELSE viewMode' = "category" /\ loadCategory(tid, 1)
    /\ UNCHANGED <<mounted, searchQuery, searchFilters>>

handleSearch(query) ==
    /\ mounted
    /\ UNCHANGED outsideFeed
    /\ Trim(query) # ""
    /\ searchQuery' = Trim(query)
    /\ viewMode' = "search"
    /\ page' = 1
    /\ searchFilters' = DefaultFilters
    /\ loadSearch(Trim(query), 1, Some(DefaultFilters))
    /\ UNCHANGED <<mounted, selectedCategory>>

handleFiltersChange(newFilters) ==
    /\ mounted
    /\ UNCHANGED outsideFeed
    /\ viewMode = "search"
    /\ searchFilters' = newFilters
    /\ page' = 1
    /\ loadSearch(searchQuery, 1, Some(newFilters))
    /\ UNCHANGED <<mounted, viewMode, selectedCategory, searchQuery>>

\* The scroll listener, with the viewport within 500 px of the bottom.
handleScroll ==
    /\ mounted
    /\ UNCHANGED outsideFeed
    /\ ~(pendingCountRef > 0 \/ ~hasMore)
    /\ page < MaxPage
    /\ page' = page + 1
    /\ CASE viewMode = "home" -> loadTrending(page + 1)
         [] viewMode = "category" -> loadCategory(selectedCategory, page + 1)
         [] viewMode = "search" /\ searchQuery # "" ->
                loadSearch(searchQuery, page + 1, Some(searchFilters))
         [] OTHER -> UNCHANGED <<feedKeyRef, pendingCountRef, videos, hasMore, loading, error,
                                 feedInFlight, feedLast, initialLoad>>
    /\ UNCHANGED <<mounted, viewMode, selectedCategory, searchQuery, searchFilters>>

\* The Retry button of the error banner.
RetryClick ==
    /\ mounted
    /\ UNCHANGED outsideFeed
    /\ error # ""
    /\ CASE viewMode = "home" -> loadTrending(1)
         [] viewMode = "category" -> loadCategory(selectedCategory, 1)
         [] viewMode = "search" -> loadSearch(searchQuery, 1, None)
    /\ UNCHANGED <<mounted, viewMode, selectedCategory, searchQuery, searchFilters, page>>

\* [...prev, ...more.filter(x => !existing.has(x))] with existing = new Set(prev).
PlainAppend(prev, more) == prev \o more
DedupAppend(prev, more) ==
    prev \o SelectSeq(more, LAMBDA x : \A i \in 1..Len(prev) : prev[i] # x)

RemoveAt(seq, i) == [j \in 1..(Len(seq) - 1) |-> IF j < i THEN seq[j] ELSE seq[j + 1]]

\* endLoad(feedKey), as the new values of <<pendingCountRef, loading, initialLoad>>.
EndLoad(feedKey) ==
    IF ~IsCurrentFeed(feedKey) THEN <<pendingCountRef, loading, initialLoad>>
    ELSE LET left == IF pendingCountRef - 1 < 0 THEN 0 ELSE pendingCountRef - 1
         IN IF left = 0 THEN <<left, FALSE, FALSE>> ELSE <<left, loading, initialLoad>>

\* The continuation of a loader after its await: request i settles with outcome o.
FeedResponse(i, o) ==
    /\ i \in 1..Len(feedInFlight)
    /\ UNCHANGED outsideFeed
    /\ LET req == feedInFlight[i]
           current == IsCurrentFeed(req.feedKey)
           done == EndLoad(req.feedKey)
       IN /\ feedInFlight' = RemoveAt(feedInFlight, i)
          /\ feedLast' = [kind |-> "response", stale |-> (req.feedKey # feedKeyRef),
                          carried |-> (o.kind = "throw" \/ o.result.videos # <<>>),
                          pageNum |-> req.pageNum,
                          videos |-> IF o.kind = "throw" THEN <<>> ELSE o.result.videos,
                          superseded |-> req.superseded]
          /\ pendingCountRef' = done[1]
          /\ loading' = done[2]
          /\ initialLoad' = done[3]
          /\ IF o.kind = "throw"
             THEN /\ error' = IF current THEN o.message ELSE error
                  /\ UNCHANGED <<videos, hasMore>>
             ELSE IF ~current
             THEN UNCHANGED <<videos, hasMore, error>>
             ELSE /\ error' = IF req.kind = "trending" /\ o.result.error # ""
                              THEN o.result.error ELSE error
                  /\ videos' = IF req.pageNum = 1 THEN o.result.videos
                               ELSE IF req.kind = "search"
                               THEN DedupAppend(videos, o.result.videos)
                               ELSE videos \o o.result.videos
                  /\ hasMore' = resolveHasMore(req.pageNum, o.result)
    /\ UNCHANGED <<mounted, feedKeyRef, viewMode, selectedCategory, searchQuery,
                   searchFilters, page>>

FeedInit ==
    /\ mounted = FALSE
    /\ feedKeyRef = HomeKey
    /\ pendingCountRef = 0
    /\ loading = TRUE
    /\ initialLoad = TRUE
    /\ videos = <<>>
    /\ hasMore = TRUE
    /\ error = ""
    /\ viewMode = "home"
    /\ selectedCategory = 0
    /\ searchQuery = ""
    /\ searchFilters = DefaultFilters
    /\ page = 1
    /\ feedInFlight = <<>>
    /\ feedLast = [kind |-> "none", stale |-> FALSE, carried |-> FALSE,
                   pageNum |-> 0, videos |-> <<>>, superseded |-> FALSE]

FeedNext ==
    \/ Mount
    \/ handleLogoClick
    \/ \E tid \in CategoryTids : handleCategorySelect(tid)
    \/ \E q \in RawQueries : handleSearch(q)
    \/ \E f \in FilterChoices : handleFiltersChange(f)
    \/ handleScroll
    \/ RetryClick
    \/ \E i \in 1..MaxInFlight, o \in FeedOutcomes : FeedResponse(i, o)

(***************************************************************************)
(* VideoPlayer: comments and related-videos loads of the open video         *)
(***************************************************************************)

\* Bounds of the player model.
MaxPlayerInFlight == 2
MaxRpid == 2

COMMENTS_PAGE_SIZE == 20

\* The videos that can be opened.  aid 0 is "unknown" (search and related
\* listings fill it with 0); related listings may even carry an empty bvid.
PlayerCatalog ==
    {[bvid |-> "", aid |-> 0], [bvid |-> "BVa", aid |-> 0],
     [bvid |-> "BVb", aid |-> 0], [bvid |-> "BVc", aid |-> 7]}

CommentPages == {<<>>} \cup {<<c>> : c \in 1..MaxRpid} \cup {<<1, 2>>}
\* What getVideoComments may resolve with: a page, or its failure shape.
CommentResults ==
    [comments : CommentPages, total : {2}, hasMore : {"absent", "true", "false"},
     nextCursor : {None, Some(1)}, requiresLogin : {"absent", "true"}, error : {""}]
    \cup [comments : {<<>>}, total : {0}, hasMore : {"false"}, nextCursor : {None},
          requiresLogin : {"absent"}, error : {"HTTP 412"}]
RelatedLists == {<<>>, <<"BVc">>}

\* !aid && !bvid
NoVideoId(v) == v.aid = 0 /\ v.bvid = ""

\* The staleness test of loadComments after its await:
\* latestAidRef.current !== aid && aid !== 0.
IsStaleComments(aid) == latestAidRef # Some(aid) /\ aid # 0

\* loadComments(aid, cursor, append, bvid) up to its await.
LoadComments(v, cursor, append) ==
    IF NoVideoId(v)
    THEN /\ commentsError' = "No video ID"
         /\ loadingComments' = FALSE
         /\ UNCHANGED <<comments, commentsTotal, hasMoreComments, nextCursor,
                        commentsRequireLogin, loadingMoreComments, commentsInFlight>>
    ELSE /\ Len(commentsInFlight) < MaxPlayerInFlight
         /\ commentsError' = ""
         /\ commentsInFlight' = Append(commentsInFlight,
                                       [video |-> v, cursor |-> cursor, append |-> append])
         /\ IF append
            THEN /\ loadingMoreComments' = TRUE
                 /\ UNCHANGED <<comments, commentsTotal, hasMoreComments, nextCursor,
                                commentsRequireLogin, loadingComments>>
            ELSE /\ loadingComments' = TRUE
                 /\ comments' = <<>>
                 /\ commentsTotal' = 0
                 /\ hasMoreComments' = TRUE
                 /\ nextCursor' = None
                 /\ commentsRequireLogin' = FALSE
                 /\ UNCHANGED loadingMoreComments

\* The "Load comments" effect, run when video.aid or video.bvid changed.
CommentsEffect(v) ==
    /\ latestAidRef' = IF NoVideoId(v) THEN latestAidRef ELSE Some(v.aid)
    /\ LoadComments(v, 0, FALSE)

\* The "Load related videos" effect, run when video.bvid changed.
RelatedEffect(v) ==
    /\ Len(relatedInFlight) < MaxPlayerInFlight
    /\ relatedVideos' = <<>>
    /\ loadingRelated' = TRUE
    /\ relatedInFlight' = Append(relatedInFlight, [video |-> v])

\* The shell opens the player on v, or swaps the open player's video for v
\* (a related-video click, "play next"): the effects keyed on the video run.
ShowVideo(v) ==
    /\ video # Some(v)
    /\ video' = Some(v)
    /\ CommentsEffect(v)
    /\ RelatedEffect(v)
    /\ playerLast' = [kind |-> "show", stale |-> FALSE, carried |-> FALSE]
    /\ UNCHANGED outsidePlayer

\* The retry buttons of the error and the empty comment states.
RetryComments ==
    /\ video # None
    /\ ~loadingComments
    /\ commentsError # "" \/ comments = <<>>
    /\ LoadComments(video[1], 0, FALSE)
    /\ playerLast' = [kind |-> "retry", stale |-> FALSE, carried |-> FALSE]
    /\ UNCHANGED <<video, latestAidRef, relatedVideos, loadingRelated, relatedInFlight>>
    /\ UNCHANGED outsidePlayer

\* The "load more" button under the comment list.
LoadMoreComments ==
    /\ video # None
    /\ ~loadingComments /\ commentsError = "" /\ comments # <<>>
    /\ hasMoreComments /\ nextCursor # None /\ ~loadingMoreComments
    /\ LoadComments(video[1], nextCursor[1], TRUE)
    /\ playerLast' = [kind |-> "more", stale |-> FALSE, carried |-> FALSE]
    /\ UNCHANGED <<video, latestAidRef, relatedVideos, loadingRelated, relatedInFlight>>
    /\ UNCHANGED outsidePlayer

\* The continuation of loadComments after its await: request i resolves with r.
CommentsResponse(i, r) ==
    /\ video # None
    /\ i \in 1..Len(commentsInFlight)
    /\ LET req == commentsInFlight[i]
           more == IF r.hasMore = "absent" THEN Len(r.comments) = COMMENTS_PAGE_SIZE
                   ELSE r.hasMore = "true"
       IN /\ commentsInFlight' = RemoveAt(commentsInFlight, i)
          /\ playerLast' = [kind |-> "comments", stale |-> (req.video # video[1]),
                            carried |-> TRUE]
          /\ IF IsStaleComments(req.video.aid)
             THEN UNCHANGED <<comments, commentsTotal, hasMoreComments, nextCursor,
                              commentsRequireLogin, commentsError, loadingComments,
                              loadingMoreComments>>
             ELSE IF r.error # ""
             THEN /\ commentsError' = "Comments unavailable"
                  /\ loadingComments' = FALSE
                  /\ loadingMoreComments' = FALSE
                  /\ UNCHANGED <<comments, commentsTotal, hasMoreComments, nextCursor,
                                 commentsRequireLogin>>
             ELSE IF ~req.append
             THEN /\ comments' = r.comments
                  /\ commentsTotal' = r.total
                  /\ hasMoreComments' = more
                  /\ nextCursor' = r.nextCursor
                  /\ commentsRequireLogin' = (r.requiresLogin = "true")
                  /\ loadingComments' = FALSE
                  /\ UNCHANGED <<commentsError, loadingMoreComments>>
             ELSE IF r.comments = <<>>
             THEN /\ hasMoreComments' = FALSE
                  /\ nextCursor' = None
                  /\ commentsRequireLogin' = (r.requiresLogin = "true")
                  /\ loadingMoreComments' = FALSE
                  /\ UNCHANGED <<comments, commentsTotal, commentsError, loadingComments>>
             ELSE /\ comments' = DedupAppend(comments, r.comments)
                  /\ hasMoreComments' = (r.hasMore = "true")
                  /\ nextCursor' = r.nextCursor
                  /\ commentsRequireLogin' = (r.requiresLogin = "true")
                  /\ loadingMoreComments' = FALSE
                  /\ UNCHANGED <<commentsTotal, commentsError, loadingComments>>
    /\ UNCHANGED <<video, latestAidRef, relatedVideos, loadingRelated, relatedInFlight>>
    /\ UNCHANGED outsidePlayer

\* getRelatedVideos(bvid).then(setRelatedVideos).finally(() => setLoadingRelated(false))
RelatedResponse(i, list) ==
    /\ video # None
    /\ i \in 1..Len(relatedInFlight)
    /\ relatedInFlight' = RemoveAt(relatedInFlight, i)
    /\ relatedVideos' = list
    /\ loadingRelated' = FALSE
    /\ playerLast' = [kind |-> "related", stale |-> (relatedInFlight[i].video # video[1]),
                      carried |-> TRUE]
    /\ UNCHANGED <<video, comments, commentsTotal, hasMoreComments, nextCursor,
                   commentsRequireLogin, commentsError, loadingComments,
                   loadingMoreComments, latestAidRef, commentsInFlight>>
    /\ UNCHANGED outsidePlayer

\* The state of a player that is not mounted: the initial values of its hooks.
PlayerInit ==
    /\ video = None
    /\ comments = <<>>
    /\ commentsTotal = 0
    /\ hasMoreComments = TRUE
    /\ nextCursor = None
    /\ commentsRequireLogin = FALSE
    /\ commentsError = ""
    /\ loadingComments = TRUE
    /\ loadingMoreComments = FALSE
    /\ latestAidRef = None
    /\ relatedVideos = <<>>
    /\ loadingRelated = TRUE
    /\ commentsInFlight = <<>>
    /\ relatedInFlight = <<>>
    /\ playerLast = [kind |-> "none", stale |-> FALSE, carried |-> FALSE]

\* onClose: the player unmounts; what its pending loads later set is set on a
\* discarded instance, and the next player starts from the initial values.
ClosePlayer ==
    /\ video # None
    /\ video' = None
    /\ comments' = <<>>
    /\ commentsTotal' = 0
    /\ hasMoreComments' = TRUE
    /\ nextCursor' = None
    /\ commentsRequireLogin' = FALSE
    /\ commentsError' = ""
    /\ loadingComments' = TRUE
    /\ loadingMoreComments' = FALSE
    /\ latestAidRef' = None
    /\ relatedVideos' = <<>>
    /\ loadingRelated' = TRUE
    /\ commentsInFlight' = <<>>
    /\ relatedInFlight' = <<>>
    /\ playerLast' = [kind |-> "close", stale |-> FALSE, carried |-> FALSE]
    /\ UNCHANGED outsidePlayer

PlayerNext ==
    \/ \E v \in PlayerCatalog : ShowVideo(v)
    \/ RetryComments
    \/ LoadMoreComments
    \/ \E i \in 1..MaxPlayerInFlight, r \in CommentResults : CommentsResponse(i, r)
    \/ \E i \in 1..MaxPlayerInFlight, l \in RelatedLists : RelatedResponse(i, l)
    \/ ClosePlayer

(***************************************************************************)
(* Platform markers                                                         *)
(***************************************************************************)

\* typeof window !== 'undefined' && Boolean(window.__TAURI_INTERNALS__)
checkIsTauri == tauriInternals

\* The markers are put on the window before the scripts run and stay.
PlatformInit == tauriGlobal \in BOOLEAN /\ tauriInternals \in BOOLEAN

\* The native shell of the desktop build, with both markers.
PlatformNative == tauriGlobal = TRUE /\ tauriInternals = TRUE

(***************************************************************************)
(* Header + LoginModal: QR fetch, poll interval, success timeout            *)
(***************************************************************************)

\* Bounds of the login model.
MaxQrKeys == 2
MaxQrFetch == 1
MaxPolls == 2
MaxTimers == 2

\* The codes checkQRCodeStatus may resolve with: success, expired, scanned,
\* waiting, the synthetic network failure, and a top-level API error.
PollCodes == {0, 86038, 86090, 86101, -1, -400}

\* The poll-interval effect, cleanup then body: it runs whenever qrCode or the
\* identity of pollStatus changed.  pollStatus is rebuilt when qrCode, onClose or
\* onLoginSuccess change, and the Header passes fresh arrow functions for the
\* latter two on each of its renders.
Rearmed(qr) == IF qr # None /\ checkIsTauri THEN qr ELSE None

\* fetchQRCode up to its await.
FetchQRCode ==
    /\ qrFetchInFlight < MaxQrFetch
    /\ qrFetchInFlight' = qrFetchInFlight + 1
    /\ loginError' = ""
    /\ loginStatus' = "Generating QR code..."

\* The "Sign in" button: setShowLoginModal(true); the open/close effect and the
\* poll-interval effect of the modal run in the commit.
OpenLogin ==
    /\ loginMounted /\ ~showLoginModal
    /\ showLoginModal' = TRUE
    /\ IF ~checkIsTauri
       THEN /\ qrCode' = None
            /\ loginError' = ""
            /\ loginStatus' = "Sign in is available in the desktop app only."
            /\ UNCHANGED qrFetchInFlight
       ELSE FetchQRCode /\ UNCHANGED qrCode
    /\ pollIntervalRef' = Rearmed(qrCode')
    /\ pollingEntitled' = FALSE
    /\ loginLast' = [kind |-> "open", key |-> 0]
    /\ UNCHANGED <<loginMounted, pollsInFlight, successTimers, nextQrKey, settledKeys,
                   successCalls>>
    /\ UNCHANGED outsideLogin

\* The backdrop or the close button: onClose, setShowLoginModal(false).
CloseLogin ==
    /\ loginMounted /\ showLoginModal
    /\ showLoginModal' = FALSE
    /\ pollIntervalRef' = Rearmed(qrCode)
    /\ pollingEntitled' = FALSE
    /\ loginLast' = [kind |-> "close", key |-> 0]
    /\ UNCHANGED <<loginMounted, qrCode, loginStatus, loginError, qrFetchInFlight,
                   pollsInFlight, successTimers, nextQrKey, settledKeys, successCalls>>
    /\ UNCHANGED outsideLogin

\* The retry / refresh buttons of the open modal: onClick={fetchQRCode}.
RefreshQR ==
    /\ loginMounted /\ showLoginModal /\ checkIsTauri
    /\ FetchQRCode
    /\ loginLast' = [kind |-> "refresh", key |-> 0]
    /\ UNCHANGED <<loginMounted, showLoginModal, qrCode, pollIntervalRef, pollsInFlight,
                   successTimers, nextQrKey, pollingEntitled, settledKeys, successCalls>>
    /\ UNCHANGED outsideLogin

\* fetchQRCode after its await: getLoginQRCode resolved with a fresh key, or threw.
QRFetched(ok) ==
    /\ qrFetchInFlight > 0
    /\ qrFetchInFlight' = qrFetchInFlight - 1
    /\ IF ok
       THEN /\ nextQrKey <= MaxQrKeys
            /\ nextQrKey' = nextQrKey + 1
            /\ IF loginMounted
               THEN /\ qrCode' = Some(nextQrKey)
                    /\ loginStatus' = "Scan with Bilibili app"
                    /\ pollIntervalRef' = Rearmed(qrCode')
                    /\ pollingEntitled' = showLoginModal
               ELSE UNCHANGED <<qrCode, loginStatus, pollIntervalRef, pollingEntitled>>
            /\ UNCHANGED loginError
       ELSE /\ loginError' = IF loginMounted THEN "Failed to generate QR code" ELSE loginError
            /\ UNCHANGED <<nextQrKey, qrCode, loginStatus, pollIntervalRef, pollingEntitled>>
    /\ loginLast' = [kind |-> "qr", key |-> 0]
    /\ UNCHANGED <<loginMounted, showLoginModal, pollsInFlight, successTimers, settledKeys,
                   successCalls>>
    /\ UNCHANGED outsideLogin

\* The 2000 ms interval fires: pollStatus up to its await.
IntervalTick ==
    /\ pollIntervalRef # None
    /\ Len(pollsInFlight) < MaxPolls
    /\ pollsInFlight' = Append(pollsInFlight, pollIntervalRef[1])
    /\ loginLast' = [kind |-> "poll", key |-> pollIntervalRef[1]]
    /\ UNCHANGED <<loginMounted, showLoginModal, qrCode, loginStatus, loginError,
                   pollIntervalRef, qrFetchInFlight, successTimers, nextQrKey,
                   pollingEntitled, settledKeys, successCalls>>
    /\ UNCHANGED outsideLogin

\* pollStatus after its await: poll i resolved with code.
PollResult(i, code) ==
    /\ i \in 1..Len(pollsInFlight)
    /\ LET key == pollsInFlight[i]
           said == CASE code = 0 -> "Login successful!"
                     [] code = 86090 -> "Scanned - confirm on your phone"
                     [] code = 86101 -> "Scan with Bilibili app"
                     [] code = -1 -> "Network error"
                     [] OTHER -> loginStatus
       IN /\ pollsInFlight' = RemoveAt(pollsInFlight, i)
          /\ loginStatus' = IF loginMounted THEN said ELSE loginStatus
          /\ loginError' = IF loginMounted /\ code = 86038 THEN "QR code expired"
                           ELSE loginError
          /\ pollIntervalRef' = IF code \in {0, 86038} THEN None ELSE pollIntervalRef
          /\ IF code = 0
             THEN /\ Len(successTimers) < MaxTimers
                  /\ successTimers' = Append(successTimers, key)
             ELSE UNCHANGED successTimers
          /\ settledKeys' = IF code \in {0, 86038} THEN settledKeys \cup {key}
                            ELSE settledKeys
          /\ loginLast' = [kind |-> "result", key |-> key]
    /\ UNCHANGED <<loginMounted, showLoginModal, qrCode, qrFetchInFlight, nextQrKey,
                   pollingEntitled, successCalls>>
    /\ UNCHANGED outsideLogin

\* The oldest success timeout fires: onLoginSuccess() (the Header closes the modal
\* and calls refreshAuth), then onClose(); the Header renders again.
SuccessTimerFire ==
    /\ successTimers # <<>>
    /\ LET key == Head(successTimers)
       IN /\ successTimers' = Tail(successTimers)
          /\ successCalls' = [successCalls EXCEPT
                                 ![key] = IF @ >= 1 THEN 2 ELSE 1]
          /\ loginLast' = [kind |-> "success", key |-> key]
    /\ showLoginModal' = FALSE
    /\ pollIntervalRef' = IF loginMounted THEN Rearmed(qrCode) ELSE pollIntervalRef
    /\ pollingEntitled' = FALSE
    /\ UNCHANGED <<loginMounted, qrCode, loginStatus, loginError, qrFetchInFlight,
                   pollsInFlight, nextQrKey, settledKeys>>
    /\ UNCHANGED outsideLogin

\* The App or the Header renders again for a reason of its own (a feed response,
\* the user menu): the modal receives fresh callbacks.
ParentRender ==
    /\ loginMounted
    /\ pollIntervalRef' = Rearmed(qrCode)
    /\ loginLast' = [kind |-> "render", key |-> 0]
    /\ UNCHANGED <<loginMounted, showLoginModal, qrCode, loginStatus, loginError,
                   qrFetchInFlight, pollsInFlight, successTimers, nextQrKey,
                   pollingEntitled, settledKeys, successCalls>>
    /\ UNCHANGED outsideLogin

\* The Header unmounts: the cleanups of the modal's effects run.
UnmountLogin ==
    /\ loginMounted
    /\ loginMounted' = FALSE
    /\ showLoginModal' = FALSE
    /\ pollIntervalRef' = None
    /\ pollingEntitled' = FALSE
    /\ loginLast' = [kind |-> "unmount", key |-> 0]
    /\ UNCHANGED <<qrCode, loginStatus, loginError, qrFetchInFlight, pollsInFlight,
                   successTimers, nextQrKey, settledKeys, successCalls>>
    /\ UNCHANGED outsideLogin

LoginInit ==
    /\ loginMounted = TRUE
    /\ showLoginModal = FALSE
    /\ qrCode = None
    /\ loginStatus = "Loading..."
    /\ loginError = ""
    /\ pollIntervalRef = None
    /\ qrFetchInFlight = 0
    /\ pollsInFlight = <<>>
    /\ successTimers = <<>>
    /\ nextQrKey = 1
    /\ loginLast = [kind |-> "none", key |-> 0]
    /\ pollingEntitled = FALSE
    /\ settledKeys = {}
    /\ successCalls = [k \in 1..MaxQrKeys |-> 0]

LoginNext ==
    \/ OpenLogin
    \/ CloseLogin
    \/ RefreshQR
    \/ \E ok \in BOOLEAN : QRFetched(ok)
    \/ IntervalTick
    \/ \E i \in 1..MaxPolls, code \in PollCodes : PollResult(i, code)
    \/ SuccessTimerFire
    \/ ParentRender
    \/ UnmountLogin

(***************************************************************************)
(* Auth service: saveCookies, loadSavedCookies, checkQRCodeStatus, logout   *)
(***************************************************************************)

\* A cookie string is the sequence of its name=value parts, joined by '; ';
\* the empty string has no parts.
NoCookies == <<>>
CookieStrings == { << <<"SESSDATA", "a">> >>, << <<"SESSDATA", "b">>, <<"bili_jct", "x">> >> }
LegacyCookies == << <<"SESSDATA", "old">> >>

\* The url field of a successful poll: text that new URL() accepts or rejects,
\* with its query parameters in order.
LoginUrls ==
    { [valid |-> FALSE, params |-> <<>>],
      [valid |-> TRUE, params |-> <<>>],
      [valid |-> TRUE, params |-> << <<"gourl", "x">>, <<"SESSDATA", "">> >>],
      [valid |-> TRUE, params |-> << <<"SESSDATA", "a">>, <<"gourl", "x">> >>],
      [valid |-> TRUE, params |-> << <<"bili_jct", "x">>, <<"SESSDATA", "b">> >>] }

\* URLSearchParams.get: the value of the first parameter of that name, "" if none.
ParamGet(params, name) ==
    LET hits == SelectSeq(params, LAMBDA kv : kv[1] = name)
    IN IF hits = <<>> THEN "" ELSE hits[1][2]

\* extractCookiesFromUrl: the four session parameters that are present and not
\* empty, in the code's order; no parts stands for null.
extractCookiesFromUrl(url) ==
    LET part(name) == IF ParamGet(url.params, name) = "" THEN <<>>
                      ELSE << <<name, ParamGet(url.params, name)>> >>
    IN IF ~url.valid THEN NoCookies
       ELSE part("DedeUserID") \o part("DedeUserID__ckMd5") \o part("SESSDATA")
               \o part("bili_jct")

\* What the passport host may answer to one poll, or the fetch throws.
NoUrl == [valid |-> FALSE, params |-> <<>>]
PollResponses ==
    {[thrown |-> TRUE, code |-> 0, status |-> 0, url |-> NoUrl],
     [thrown |-> FALSE, code |-> -400, status |-> 0, url |-> NoUrl]}
    \cup {[thrown |-> FALSE, code |-> 0, status |-> st, url |-> NoUrl] :
              st \in {86038, 86090, 86101, 86000}}
    \cup {[thrown |-> FALSE, code |-> 0, status |-> 0, url |-> u] : u \in LoginUrls}

\* No poll: what the history holds for the calls that are not polls.
NoPoll == [thrown |-> TRUE, code |-> 0, status |-> 0, url |-> NoUrl]

\* getStatusMessage(code)
getStatusMessageSwapped(code) ==
    CASE code = 86038 -> "Scanned - please confirm on your phone"
      [] code = 86090 -> "QR code expired"
      [] code = 86101 -> "Waiting for scan..."
      [] OTHER -> "Unknown status"
getStatusMessage(code) ==
    CASE code = 86038 -> "QR code expired"
      [] code = 86090 -> "Scanned - please confirm on your phone"
      [] code = 86101 -> "Waiting for scan..."
      [] OTHER -> "Unknown status"

\* Which call of the store plugin rejects during one service call, if any.
StoreFailures == {"none", "load", "get", "set", "delete", "save"}

\* window.localStorage.removeItem(LOCAL_STORAGE_KEY)
KeepItem(item) == item
RemoveItem(item) == None

\* getStore(): the cached handle, or one loaded from auth.json.
GetStoreThrows(fail) == ~checkIsTauri \/ (store = None /\ fail = "load")
GetStore == IF store = None THEN Some(authFile) ELSE store

\* saveCookies(cookies): the storage it leaves behind.
SaveCookies(cookies, fail) ==
    IF ~checkIsTauri
    THEN [ls |-> RemoveItem(localStorageAuth), store |-> store, file |-> authFile]
    ELSE IF GetStoreThrows(fail)
    THEN [ls |-> localStorageAuth, store |-> store, file |-> authFile]
    ELSE IF fail = "set"
    THEN [ls |-> localStorageAuth, store |-> GetStore, file |-> authFile]
    ELSE IF fail = "save"
    THEN [ls |-> localStorageAuth, store |-> Some(Some(cookies)), file |-> authFile]
    ELSE [ls |-> localStorageAuth, store |-> Some(Some(cookies)), file |-> Some(cookies)]

AuthCall(op, given, code) ==
    [op |-> op, given |-> given, code |-> code, hadLegacy |-> localStorageAuth # None,
     memoryBefore |-> storedCookies, message |-> "", poll |-> NoPoll]

saveCookies(cookies, fail) ==
    /\ localStorageAuth' = SaveCookies(cookies, fail).ls
    /\ store' = SaveCookies(cookies, fail).store
    /\ authFile' = SaveCookies(cookies, fail).file
    /\ authLast' = AuthCall("saveCookies", cookies, 0)
    /\ UNCHANGED storedCookies
    /\ UNCHANGED outsideAuth

loadSavedCookies(fail) ==
    /\ IF ~checkIsTauri
       THEN /\ localStorageAuth' = RemoveItem(localStorageAuth)
            /\ UNCHANGED <<storedCookies, store>>
       ELSE IF GetStoreThrows(fail)
       THEN UNCHANGED <<localStorageAuth, storedCookies, store>>
       ELSE /\ store' = GetStore
            /\ storedCookies' = IF fail # "get" /\ GetStore[1] # None
                                    /\ GetStore[1][1] # NoCookies
                                THEN GetStore[1][1] ELSE storedCookies
            /\ UNCHANGED localStorageAuth
    /\ authLast' = AuthCall("loadSavedCookies", NoCookies, 0)
    /\ UNCHANGED authFile
    /\ UNCHANGED outsideAuth

\* checkQRCodeStatus(qrcode_key): one poll of the passport host.
checkQRCodeStatus(resp, fail) ==
    LET cookies == extractCookiesFromUrl(resp.url)
        success == ~resp.thrown /\ resp.code = 0 /\ resp.status = 0
        code == IF resp.thrown THEN -1
                ELSE IF resp.code # 0 THEN resp.code
                ELSE resp.status
        message == IF resp.thrown THEN "Network error"
                   ELSE IF resp.code # 0 THEN "Login error"
                   ELSE IF resp.status = 0 THEN "Login successful"
                   ELSE getStatusMessage(resp.status)
    IN /\ IF success /\ cookies # NoCookies
          THEN /\ localStorageAuth' = SaveCookies(cookies, fail).ls
               /\ store' = SaveCookies(cookies, fail).store
               /\ authFile' = SaveCookies(cookies, fail).file
               /\ storedCookies' = cookies
          ELSE UNCHANGED <<localStorageAuth, store, authFile, storedCookies>>
       /\ authLast' = [AuthCall("checkQRCodeStatus",
                                IF success THEN cookies ELSE NoCookies, code)
                          EXCEPT !.message = message, !.poll = resp]
       /\ UNCHANGED outsideAuth

\* logout()
logout(fail) ==
    /\ IF ~checkIsTauri
       THEN /\ localStorageAuth' = RemoveItem(localStorageAuth)
            /\ storedCookies' = NoCookies
            /\ UNCHANGED <<store, authFile>>
       ELSE IF GetStoreThrows(fail)
       THEN UNCHANGED <<localStorageAuth, storedCookies, store, authFile>>
       ELSE IF fail = "delete"
       THEN /\ store' = GetStore
            /\ UNCHANGED <<localStorageAuth, storedCookies, authFile>>
       ELSE IF fail = "save"
       THEN /\ store' = Some(None)
            /\ UNCHANGED <<localStorageAuth, storedCookies, authFile>>
       ELSE /\ store' = Some(None)
            /\ authFile' = None
            /\ storedCookies' = NoCookies
            /\ UNCHANGED localStorageAuth
    /\ authLast' = AuthCall("logout", NoCookies, 0)
    /\ UNCHANGED outsideAuth

\* A fresh page: no session cookie in memory, no store handle; an older build
\* may have left its cookie entry under the legacy key or in auth.json.
AuthInit ==
    /\ storedCookies = NoCookies
    /\ localStorageAuth \in {None, Some(LegacyCookies)}
    /\ store = None
    /\ authFile \in {None, Some(LegacyCookies)}
    /\ authLast = [op |-> "none", given |-> NoCookies, code |-> 0, hadLegacy |-> FALSE,
                   memoryBefore |-> NoCookies, message |-> "", poll |-> NoPoll]

AuthNext ==
    \/ \E c \in CookieStrings, fail \in StoreFailures : saveCookies(c, fail)
    \/ \E fail \in StoreFailures : loadSavedCookies(fail)
    \/ \E resp \in PollResponses, fail \in StoreFailures : checkQRCodeStatus(resp, fail)
    \/ \E fail \in StoreFailures : logout(fail)

(***************************************************************************)
(* Native-shell capability checks                                           *)
(***************************************************************************)

\* The modules whose isTauri constant reads window.__TAURI__ when they load.
GlobalMarkerModules == {"settings", "subscriptions", "favorites", "playlist", "history"}

\* The modules whose check reads window.__TAURI_INTERNALS__.
InternalsMarkerModules ==
    {"App", "VideoPlayer", "LoginModal", "translate", "download", "bilibili", "auth"}

CapabilityModules == GlobalMarkerModules \cup InternalsMarkerModules

\* The boolean the check of module m evaluates to.
isTauri(m) == IF m \in GlobalMarkerModules THEN tauriGlobal ELSE checkIsTauri

\* Module m evaluates its check for the first time and takes that branch; the
\* markers do not change, so later evaluations give the same answer.
EvaluateCapability(m) ==
    /\ capability[m] = "unevaluated"
    /\ capability' = [capability EXCEPT ![m] = IF isTauri(m) THEN "native" ELSE "browser"]
    /\ UNCHANGED outsideCapability

CapabilityInit == capability = [m \in CapabilityModules |-> "unevaluated"]

CapabilityNext == \E m \in CapabilityModules : EvaluateCapability(m)

(***************************************************************************)
(* Downloader: downloadVideo, downloadWithProgress, cancelDownload          *)
(***************************************************************************)

\* Bounds of the downloader model.
MaxDownloads == 2
MaxChunks == 1

DownloadBvids == {"BVa", "BVb"}

\* What getVideoStreamInfo resolves with: null, or a stream of one format.
StreamInfos == {"null", "dash", "progressive"}

\* Why the byte request or a read of its body fails without having been aborted.
FetchFailures == {"HTTP 403", "No response body", "network"}

\* What the byte response declares as its length (0: none), and the sizes of
\* the chunks its body delivers.
ContentLengths == {0, 1, 3}
ChunkSizes == {1, 2}

\* The progress field of the events downloadVideo builds itself.
StatusProgress(status) ==
    CASE status = "merging" -> 95
      [] status = "completed" -> 100
      [] OTHER -> 0

\* One progress event: its status, its progress and, for 'error', which message
\* it carries.
Progress(status, message) ==
    [status |-> status, error |-> message, progress |-> StatusProgress(status)]

\* Math.min(contentLength > 0 ? (receivedLength / contentLength) * 100 : 0, 100),
\* in whole percent.
ChunkProgressUncapped(receivedLength, contentLength) ==
    IF contentLength > 0 THEN (receivedLength * 100) \div contentLength ELSE 0
ChunkProgress(receivedLength, contentLength) ==
    LET progress == IF contentLength > 0 THEN (receivedLength * 100) \div contentLength
                    ELSE 0
    IN IF progress < 100 THEN progress ELSE 100

\* streamInfo.format === 'dash'
IsDashNever(info) == FALSE
IsDash(info) == info = "dash"

\* Call i with some of its fields replaced.
Advance(i, changes) ==
    [downloads EXCEPT ![i] = [f \in DOMAIN @ |->
                                 IF f \in DOMAIN changes THEN changes[f] ELSE @[f]]]

\* downloadVideo(video, quality, onProgress) up to its first await.
downloadVideo(bvid) ==
    /\ Len(downloads) < MaxDownloads
    /\ downloads' = Append(downloads,
          [bvid |-> bvid, pc |-> "stream", events |-> <<Progress("pending", "")>>,
           result |-> None, format |-> "unresolved", aborted |-> FALSE,
           byteRequest |-> FALSE, saved |-> FALSE, chunks |-> 0,
           receivedLength |-> 0, contentLength |-> 0,
           cancelledAt |-> None])
    /\ UNCHANGED activeDownloads
    /\ UNCHANGED outsideDownload

\* getVideoStreamInfo resolved for call i: refuse, or register the controller
\* and issue the byte request.
StreamResolved(i, info) ==
    /\ i \in 1..Len(downloads) /\ downloads[i].pc = "stream"
    /\ LET b == downloads[i].bvid
           ev == downloads[i].events
       IN IF info = "null"
          THEN /\ downloads' = Advance(i, [pc |-> "done", format |-> info,
                     events |-> Append(ev, Progress("error", "Failed to get video stream URL"))])
               /\ UNCHANGED activeDownloads
          ELSE IF IsDash(info)
          THEN /\ downloads' = Advance(i, [pc |-> "done", format |-> info,
                     events |-> Append(ev, Progress("error", "This quality is DASH-only"))])
               /\ UNCHANGED activeDownloads
          ELSE /\ downloads' = Advance(i, [pc |-> "fetch", format |-> info,
                     byteRequest |-> TRUE,
                     events |-> Append(ev, Progress("downloading", ""))])
               /\ activeDownloads' = [activeDownloads EXCEPT ![b] = Some(i)]
    /\ UNCHANGED outsideDownload

\* The byte request of call i answered with an OK response that has a body.
FetchResponded(i) ==
    /\ i \in 1..Len(downloads) /\ downloads[i].pc = "fetch" /\ ~downloads[i].aborted
    /\ \E length \in ContentLengths :
           downloads' = Advance(i, [pc |-> "reading", contentLength |-> length])
    /\ UNCHANGED activeDownloads
    /\ UNCHANGED outsideDownload

\* reader.read() of call i delivered a chunk.
ChunkRead(i) ==
    /\ i \in 1..Len(downloads) /\ downloads[i].pc = "reading" /\ ~downloads[i].aborted
    /\ downloads[i].chunks < MaxChunks
    /\ \E size \in ChunkSizes :
          LET received == downloads[i].receivedLength + size
          IN downloads' = Advance(i, [chunks |-> downloads[i].chunks + 1,
                 receivedLength |-> received,
                 events |-> Append(downloads[i].events,
                     [Progress("downloading", "") EXCEPT
                         !.progress = ChunkProgress(received, downloads[i].contentLength)])])
    /\ UNCHANGED activeDownloads
    /\ UNCHANGED outsideDownload

\* reader.read() of call i reported done: save the file, drop the map entry of
\* the bvid, report completion.
ReadDone(i) ==
    /\ i \in 1..Len(downloads) /\ downloads[i].pc = "reading" /\ ~downloads[i].aborted
    /\ downloads' = Advance(i, [pc |-> "done", saved |-> TRUE,
              result |-> Some(downloads[i].bvid),
              events |-> downloads[i].events
                           \o <<Progress("merging", ""), Progress("completed", "")>>])
    /\ activeDownloads' = [activeDownloads EXCEPT ![downloads[i].bvid] = None]
    /\ UNCHANGED outsideDownload

\* The catch block of downloadVideo for call i.
DownloadCatch(i, message) ==
    /\ downloads' = Advance(i, [pc |-> "done",
              events |-> Append(downloads[i].events, Progress("error", message))])
    /\ activeDownloads' = [activeDownloads EXCEPT ![downloads[i].bvid] = None]

\* The byte request or a read of call i fails for a reason other than an abort:
\* downloadWithProgress rethrows.
FetchFailed(i, why) ==
    /\ i \in 1..Len(downloads) /\ ~downloads[i].aborted
    /\ \/ downloads[i].pc = "fetch"
       \/ downloads[i].pc = "reading" /\ why = "network"
    /\ DownloadCatch(i, why)
    /\ UNCHANGED outsideDownload

\* The aborted request of call i rejects with an AbortError: downloadWithProgress
\* returns null and downloadVideo throws 'Failed to download video stream'.
FetchAborted(i) ==
    /\ i \in 1..Len(downloads) /\ downloads[i].pc \in {"fetch", "reading"}
    /\ downloads[i].aborted
    /\ DownloadCatch(i, "Failed to download video stream")
    /\ UNCHANGED outsideDownload

\* cancelDownload(bvid): abort the controller the map holds for bvid, if any.
cancelDownload(bvid) ==
    /\ IF activeDownloads[bvid] = None
       THEN UNCHANGED <<downloads, activeDownloads>>
       ELSE /\ downloads' = Advance(activeDownloads[bvid][1],
                   [aborted |-> TRUE,
                    cancelledAt |-> Some(Len(downloads[activeDownloads[bvid][1]].events))])
            /\ activeDownloads' = [activeDownloads EXCEPT ![bvid] = None]
    /\ UNCHANGED outsideDownload

DownloadInit ==
    /\ downloads = <<>>
    /\ activeDownloads = [b \in DownloadBvids |-> None]

DownloadNext ==
    \/ \E b \in DownloadBvids : downloadVideo(b)
    \/ \E i \in 1..MaxDownloads, info \in StreamInfos : StreamResolved(i, info)
    \/ \E i \in 1..MaxDownloads : FetchResponded(i)
    \/ \E i \in 1..MaxDownloads : ChunkRead(i)
    \/ \E i \in 1..MaxDownloads : ReadDone(i)
    \/ \E i \in 1..MaxDownloads, why \in FetchFailures : FetchFailed(i, why)
    \/ \E i \in 1..MaxDownloads : FetchAborted(i)
    \/ \E b \in DownloadBvids : cancelDownload(b)

(***************************************************************************)
(* Navigation of the shell: open video, playlist context, panels            *)
(***************************************************************************)

NavVideos == {"BVa", "BVb", "BVc"}

\* The playlists the playlist panel may list.
PanelPlaylists == {<<"BVa", "BVb">>, <<"BVb">>, <<"BVc", "BVa", "BVb">>}

\* The panels behind the floating buttons; the buttons lie under the player and
\* under every open panel.
FabPanels == {"settings", "history", "favorites", "subscriptions", "playlist"}

\* playlistContext.videos.some(v => v.bvid === video.bvid)
InContext(context, v) == \E i \in 1..Len(context.videos) : context.videos[i] = v

\* One of the floating buttons: setShow...Panel(true).
OpenPanel(p) ==
    /\ selectedVideo = None /\ ~selectedChannel /\ openPanel = "none"
    /\ openPanel' = p
    /\ navLast' = [path |-> "open panel", video |-> ""]
    /\ UNCHANGED <<selectedVideo, playlistContext, selectedChannel>>
    /\ UNCHANGED outsideNav

\* onClose of the open panel.
PanelOnClose ==
    /\ openPanel # "none"
    /\ openPanel' = "none"
    /\ navLast' = [path |-> "close panel", video |-> ""]
    /\ UNCHANGED <<selectedVideo, playlistContext, selectedChannel>>
    /\ UNCHANGED outsideNav

\* VideoGrid onVideoSelect={setSelectedVideo}: a card of the feed.
GridOnVideoSelect(v) ==
    /\ selectedVideo = None /\ ~selectedChannel /\ openPanel = "none"
    /\ selectedVideo' = Some(v)
    /\ navLast' = [path |-> "grid", video |-> v]
    /\ UNCHANGED <<playlistContext, selectedChannel, openPanel>>
    /\ UNCHANGED outsideNav

\* onVideoSelect of the history, favorites or subscriptions panel.
PanelOnVideoSelect(v) ==
    /\ openPanel \in {"history", "favorites", "subscriptions"}
    /\ selectedVideo' = Some(v)
    /\ openPanel' = "none"
    /\ navLast' = [path |-> openPanel, video |-> v]
    /\ UNCHANGED <<playlistContext, selectedChannel>>
    /\ UNCHANGED outsideNav

\* onVideoSelect of the playlist panel: entry index of a playlist, with its context.
PlaylistOnVideoSelect(list, index) ==
    /\ openPanel = "playlist"
    /\ index \in 1..Len(list)
    /\ selectedVideo' = Some(list[index])
    /\ playlistContext' = Some([videos |-> list, currentIndex |-> index])
    /\ openPanel' = "none"
    /\ navLast' = [path |-> "playlist", video |-> list[index]]
    /\ UNCHANGED selectedChannel
    /\ UNCHANGED outsideNav

\* onChannelSelect={setSelectedChannel}: of a feed card, of the open player, or
\* of the subscriptions panel (which closes).
OnChannelSelect ==
    /\ ~selectedChannel
    /\ openPanel \in {"none", "subscriptions"}
    /\ selectedChannel' = TRUE
    /\ openPanel' = "none"
    /\ navLast' = [path |-> "open channel", video |-> ""]
    /\ UNCHANGED <<selectedVideo, playlistContext>>
    /\ UNCHANGED outsideNav

\* ChannelPanel onVideoSelect.
ChannelOnVideoSelect(v) ==
    /\ selectedChannel
    /\ selectedVideo' = Some(v)
    /\ selectedChannel' = FALSE
    /\ navLast' = [path |-> "channel", video |-> v]
    /\ UNCHANGED <<playlistContext, openPanel>>
    /\ UNCHANGED outsideNav

\* ChannelPanel onClose.
ChannelOnClose ==
    /\ selectedChannel
    /\ selectedChannel' = FALSE
    /\ navLast' = [path |-> "close channel", video |-> ""]
    /\ UNCHANGED <<selectedVideo, playlistContext, openPanel>>
    /\ UNCHANGED outsideNav

\* VideoPlayer onVideoChange: a related video was clicked.
onVideoChange(v) ==
    /\ selectedVideo # None /\ ~selectedChannel
    /\ selectedVideo' = Some(v)
    /\ playlistContext' = IF playlistContext = None \/ ~InContext(playlistContext[1], v)
                          THEN None ELSE playlistContext
    /\ navLast' = [path |-> "related", video |-> v]
    /\ UNCHANGED <<selectedChannel, openPanel>>
    /\ UNCHANGED outsideNav

\* VideoPlayer onPlayNext.
onPlayNext ==
    /\ selectedVideo # None /\ ~selectedChannel
    /\ playlistContext # None
    /\ playlistContext[1].currentIndex < Len(playlistContext[1].videos)
    /\ LET nextIndex == playlistContext[1].currentIndex + 1
       IN /\ selectedVideo' = Some(playlistContext[1].videos[nextIndex])
          /\ playlistContext' = Some([playlistContext[1] EXCEPT !.currentIndex = nextIndex])
          /\ navLast' = [path |-> "next", video |-> playlistContext[1].videos[nextIndex]]
    /\ UNCHANGED <<selectedChannel, openPanel>>
    /\ UNCHANGED outsideNav

\* VideoPlayer onClose.
PlayerOnClose ==
    /\ selectedVideo # None /\ ~selectedChannel
    /\ selectedVideo' = None
    /\ playlistContext' = None
    /\ navLast' = [path |-> "close player", video |-> ""]
    /\ UNCHANGED <<selectedChannel, openPanel>>
    /\ UNCHANGED outsideNav

NavInit ==
    /\ selectedVideo = None
    /\ playlistContext = None
    /\ selectedChannel = FALSE
    /\ openPanel = "none"
    /\ navLast = [path |-> "none", video |-> ""]

NavNext ==
    \/ \E p \in FabPanels : OpenPanel(p)
    \/ PanelOnClose
    \/ \E v \in NavVideos : GridOnVideoSelect(v)
    \/ \E v \in NavVideos : PanelOnVideoSelect(v)
    \/ \E list \in PanelPlaylists, index \in 1..3 : PlaylistOnVideoSelect(list, index)
    \/ OnChannelSelect
    \/ \E v \in NavVideos : ChannelOnVideoSelect(v)
    \/ ChannelOnClose
    \/ \E v \in NavVideos : onVideoChange(v)
    \/ onPlayNext
    \/ PlayerOnClose

(***************************************************************************)
(* History service: addToHistory, removeFromHistory, clearHistory           *)
(***************************************************************************)

\* Bound of the history model: the number of service calls.
MaxHistoryCalls == 3

MAX_HISTORY_ITEMS == 100

\* A history of n entries, video n watched last and video 1 first.
WatchedUpTo(n) == [i \in 1..n |-> n + 1 - i]

\* What an earlier session may have stored.
StoredHistories == {<<>>, WatchedUpTo(MAX_HISTORY_ITEMS - 1), WatchedUpTo(MAX_HISTORY_ITEMS)}

\* The videos the calls are about: the oldest stored one, one in the middle, the
\* newest one, and two that are not stored.
HistoryBvids == {1, 50, MAX_HISTORY_ITEMS, MAX_HISTORY_ITEMS + 1, MAX_HISTORY_ITEMS + 2}

\* How the backend may fail during one call: the read (getItem/JSON.parse or
\* store.get) throws, or the write (setItem, Store.load, store.set) throws.
StorageFailures == {"none", "read", "write"}

\* history.filter(item => item.video.bvid !== bvid)
WithoutBvid(list, bvid) == SelectSeq(list, LAMBDA b : b # bvid)

\* filtered.slice(0, MAX_HISTORY_ITEMS)
NotTrimmed(list) == list
Trimmed(list) ==
    SubSeq(list, 1, IF Len(list) < MAX_HISTORY_ITEMS THEN Len(list) ELSE MAX_HISTORY_ITEMS)

\* getWatchHistory(): the stored list, or [] when reading throws.
getWatchHistory(fail) == IF fail = "read" THEN <<>> ELSE historyStore

HistoryCall(op, bvid, fail) ==
    /\ historyCalls < MaxHistoryCalls
    /\ historyCalls' = historyCalls + 1
    /\ historyLast' = [op |-> op, bvid |-> bvid, fail |-> fail, before |-> historyStore]
    /\ UNCHANGED outsideHistory

addToHistory(bvid, fail) ==
    /\ HistoryCall("add", bvid, fail)
    /\ historyStore' = IF fail = "write" THEN historyStore
                       ELSE Trimmed(<<bvid>> \o WithoutBvid(getWatchHistory(fail), bvid))

removeFromHistory(bvid, fail) ==
    /\ HistoryCall("remove", bvid, fail)
    /\ historyStore' = IF fail = "write" THEN historyStore
                       ELSE WithoutBvid(getWatchHistory(fail), bvid)

\* clearHistory() reads nothing.
clearHistory(fail) ==
    /\ fail # "read"
    /\ HistoryCall("clear", 0, fail)
    /\ historyStore' = IF fail = "write" THEN historyStore ELSE <<>>

HistoryInit ==
    /\ historyStore \in StoredHistories
    /\ historyCalls = 0
    /\ historyLast = [op |-> "none", bvid |-> 0, fail |-> "none", before |-> <<>>]

HistoryNext ==
    \/ \E b \in HistoryBvids, fail \in StorageFailures : addToHistory(b, fail)
    \/ \E b \in HistoryBvids, fail \in StorageFailures : removeFromHistory(b, fail)
    \/ \E fail \in StorageFailures : clearHistory(fail)

(***************************************************************************)
(* Favorites and subscriptions services: add, remove, clear                 *)
(***************************************************************************)

\* Bound of the model of the two services: the number of calls, which is also
\* how far the clock advances.
MaxCollectionCalls == 3

\* The two services and the keys of their entries: bvids, and channel mids.
CollectionKeys == [favorites |-> {"BVa", "BVb"}, subscriptions |-> {"mid 1", "mid 2"}]
CollectionServices == DOMAIN CollectionKeys

\* favorites.some(item => item.video.bvid === video.bvid),
\* subscriptions.some(sub => sub.mid === channel.mid)
NeverPresent(list, key) == FALSE
AlreadyPresent(list, key) == \E i \in 1..Len(list) : list[i].key = key

\* getFavorites() / getSubscriptions(): the stored list, or [] when reading throws.
GetCollection(service, fail) == IF fail = "read" THEN <<>> ELSE collections[service]

CollectionCall(service, op, key, fail) ==
    /\ clock < MaxCollectionCalls
    /\ clock' = clock + 1
    /\ collectionLast' = [service |-> service, op |-> op, key |-> key, fail |-> fail,
                          at |-> clock]
    /\ UNCHANGED outsideCollections

\* addToFavorites(video) / subscribe(channel)
AddEntry(service, key, fail) ==
    /\ CollectionCall(service, "add", key, fail)
    /\ LET list == GetCollection(service, fail)
       IN collections' =
             IF AlreadyPresent(list, key) \/ fail = "write" THEN collections
             ELSE [collections EXCEPT ![service] = <<[key |-> key, at |-> clock]>> \o list]
    /\ firstAdd' = [firstAdd EXCEPT ![service][key] =
                       IF @ = None THEN Some([at |-> clock, again |-> FALSE])
                       ELSE Some([@[1] EXCEPT !.again = TRUE])]

addToFavorites(bvid, fail) ==
    /\ bvid \in CollectionKeys.favorites
    /\ AddEntry("favorites", bvid, fail)

subscribe(mid, fail) ==
    /\ mid \in CollectionKeys.subscriptions
    /\ AddEntry("subscriptions", mid, fail)

\* removeFromFavorites(bvid) / unsubscribe(mid)
RemoveEntry(service, key, fail) ==
    /\ CollectionCall(service, "remove", key, fail)
    /\ collections' =
          IF fail = "write" THEN collections
          ELSE [collections EXCEPT ![service] =
                   SelectSeq(GetCollection(service, fail), LAMBDA e : e.key # key)]
    /\ firstAdd' = [firstAdd EXCEPT ![service][key] = None]

\* clearFavorites() / clearSubscriptions(): nothing is read.
ClearEntries(service, fail) ==
    /\ fail # "read"
    /\ CollectionCall(service, "clear", "", fail)
    /\ collections' = IF fail = "write" THEN collections
                      ELSE [collections EXCEPT ![service] = <<>>]
    /\ firstAdd' = [firstAdd EXCEPT ![service] = [k \in CollectionKeys[service] |-> None]]

CollectionsInit ==
    /\ collections = [s \in CollectionServices |-> <<>>]
    /\ clock = 0
    /\ collectionLast = [service |-> "", op |-> "none", key |-> "", fail |-> "none", at |-> 0]
    /\ firstAdd = [s \in CollectionServices |-> [k \in CollectionKeys[s] |-> None]]

CollectionsNext ==
    \/ \E b \in CollectionKeys.favorites, fail \in StorageFailures : addToFavorites(b, fail)
    \/ \E m \in CollectionKeys.subscriptions, fail \in StorageFailures : subscribe(m, fail)
    \/ \E s \in CollectionServices, fail \in StorageFailures :
          \E k \in CollectionKeys[s] : RemoveEntry(s, k, fail)
    \/ \E s \in CollectionServices, fail \in StorageFailures : ClearEntries(s, fail)

(***************************************************************************)
(* Playlist service: create, rename, add, remove, reorder, delete           *)
(***************************************************************************)

\* Bound of the playlist model: the number of playlist ids generated.
MaxPlaylistIds == 2

PlaylistNames == {"mix", "later"}
PlaylistBvids == {"BVa", "BVb"}

\* The arrays a caller may hand to reorderPlaylistVideos.
VideoArrays ==
    {<<>>} \cup {<<a>> : a \in PlaylistBvids}
           \cup {<<a, b>> : a \in PlaylistBvids, b \in PlaylistBvids}

\* playlists.find(p => p.id === playlistId): its index, 0 if there is none.
FindPlaylist(list, id) ==
    IF \E i \in 1..Len(list) : list[i].id = id
    THEN CHOOSE i \in 1..Len(list) : list[i].id = id
    ELSE 0

\* playlist.videos.some(v => v.bvid === video.bvid)
HasVideo(videoList, bvid) == \E i \in 1..Len(videoList) : videoList[i] = bvid

\* getPlaylists(): the stored list, or [] when reading throws.
getPlaylists(fail) == IF fail = "read" THEN <<>> ELSE playlists

\* savePlaylists(list): the write, swallowed when it throws.
savePlaylists(list, fail) == playlists' = IF fail = "write" THEN playlists ELSE list

PlaylistCall(op, id, bvid, fail, returned) ==
    /\ playlistLast' = [op |-> op, id |-> id, bvid |-> bvid, fail |-> fail,
                        returned |-> returned, before |-> playlists]
    /\ UNCHANGED outsidePlaylists

createPlaylist(name, fail) ==
    /\ nextPlaylistId <= MaxPlaylistIds
    /\ nextPlaylistId' = nextPlaylistId + 1
    /\ savePlaylists(Append(getPlaylists(fail),
                            [id |-> nextPlaylistId, name |-> name, videos |-> <<>>]), fail)
    /\ PlaylistCall("create", nextPlaylistId, "", fail, TRUE)

deletePlaylist(id, fail) ==
    /\ savePlaylists(SelectSeq(getPlaylists(fail), LAMBDA p : p.id # id), fail)
    /\ PlaylistCall("delete", id, "", fail, TRUE)
    /\ UNCHANGED nextPlaylistId

\* The shape shared by the calls that change one playlist, if it is found.
ChangePlaylist(id, fail, changed(_)) ==
    LET list == getPlaylists(fail)
        at == FindPlaylist(list, id)
    IN IF at = 0 THEN UNCHANGED playlists
       ELSE savePlaylists([list EXCEPT ![at] = changed(@)], fail)

renamePlaylist(id, newName, fail) ==
    /\ ChangePlaylist(id, fail, LAMBDA p : [p EXCEPT !.name = newName])
    /\ PlaylistCall("rename", id, "", fail, TRUE)
    /\ UNCHANGED nextPlaylistId

addVideoToPlaylist(id, bvid, fail) ==
    LET list == getPlaylists(fail)
        at == FindPlaylist(list, id)
    IN /\ IF at = 0 \/ HasVideo(list[at].videos, bvid)
          THEN UNCHANGED playlists /\ PlaylistCall("add", id, bvid, fail, FALSE)
          ELSE /\ savePlaylists([list EXCEPT ![at].videos = Append(@, bvid)], fail)
               /\ PlaylistCall("add", id, bvid, fail, TRUE)
       /\ UNCHANGED nextPlaylistId

removeVideoFromPlaylist(id, bvid, fail) ==
    /\ ChangePlaylist(id, fail,
          LAMBDA p : [p EXCEPT !.videos = SelectSeq(@, LAMBDA v : v # bvid)])
    /\ PlaylistCall("remove", id, bvid, fail, TRUE)
    /\ UNCHANGED nextPlaylistId

reorderPlaylistVideos(id, videoArray, fail) ==
    /\ ChangePlaylist(id, fail, LAMBDA p : [p EXCEPT !.videos = videoArray])
    /\ PlaylistCall("reorder", id, "", fail, TRUE)
    /\ UNCHANGED nextPlaylistId

PlaylistsInit ==
    /\ playlists = <<>>
    /\ nextPlaylistId = 1
    /\ playlistLast = [op |-> "none", id |-> 0, bvid |-> "", fail |-> "none",
                       returned |-> TRUE, before |-> <<>>]

PlaylistsNext ==
    \E fail \in StorageFailures :
        \/ \E name \in PlaylistNames : createPlaylist(name, fail)
        \/ \E id \in 1..MaxPlaylistIds :
              \/ deletePlaylist(id, fail)
              \/ \E name \in PlaylistNames : renamePlaylist(id, name, fail)
              \/ \E b \in PlaylistBvids : addVideoToPlaylist(id, b, fail)
              \/ \E b \in PlaylistBvids : removeVideoFromPlaylist(id, b, fail)
              \/ \E a \in VideoArrays : reorderPlaylistVideos(id, a, fail)

(***************************************************************************)
(* Settings service: getSettings, saveSettings, updateSetting, resetSettings *)
(***************************************************************************)

\* DEFAULT_SETTINGS as the module is loaded.
InitialDefaults ==
    [defaultQuality |-> 80, autoplay |-> TRUE, translateTitles |-> TRUE,
     translateDescriptions |-> TRUE, translateComments |-> TRUE,
     translateChannelNames |-> TRUE, translateSubtitles |-> TRUE]

\* The settings the calls change and the values they give them.
SettingValues ==
    [defaultQuality |-> {80, 64}, autoplay |-> BOOLEAN, translateSubtitles |-> BOOLEAN]

\* What an older build may have stored: nothing, or a record without the
\* translation toggles.
StoredSettings == {None, Some([defaultQuality |-> 64, autoplay |-> FALSE])}

\* { ...defaults, ...stored }
Spread(defaults, stored) ==
    [k \in DOMAIN defaults \cup DOMAIN stored |->
        IF k \in DOMAIN stored THEN stored[k] ELSE defaults[k]]

\* getSettings(): the DEFAULT_SETTINGS object itself when nothing is stored or
\* reading throws, else a new object.
getSettings(fail) ==
    IF fail = "read" \/ settingsStore = None
    THEN [shared |-> TRUE, value |-> DEFAULT_SETTINGS]
    ELSE [shared |-> FALSE, value |-> Spread(DEFAULT_SETTINGS, settingsStore[1])]

SettingsCall(op, fail) ==
    /\ settingsLast' = [op |-> op, fail |-> fail]
    /\ UNCHANGED outsideSettings

\* A caller reads the settings.
ReadSettings(fail) ==
    /\ fail # "write"
    /\ SettingsCall("get", fail)
    /\ UNCHANGED <<DEFAULT_SETTINGS, settingsStore>>

\* saveSettings(settings), as the settings hook calls it with an object of its own.
saveSettings(settings, fail) ==
    /\ fail # "read"
    /\ settingsStore' = IF fail = "write" THEN settingsStore ELSE Some(settings)
    /\ SettingsCall("save", fail)
    /\ UNCHANGED DEFAULT_SETTINGS

\* updateSetting(key, value): settings[key] = value on what getSettings returned.
updateSetting(key, value, fail) ==
    LET got == getSettings(fail)
        settings == [got.value EXCEPT ![key] = value]
    IN /\ DEFAULT_SETTINGS' = IF got.shared THEN settings ELSE DEFAULT_SETTINGS
       /\ settingsStore' = IF fail = "write" THEN settingsStore ELSE Some(settings)
       /\ SettingsCall("update", fail)

\* resetSettings(): saveSettings(DEFAULT_SETTINGS)
resetSettings(fail) ==
    /\ fail # "read"
    /\ settingsStore' = IF fail = "write" THEN settingsStore ELSE Some(DEFAULT_SETTINGS)
    /\ SettingsCall("reset", fail)
    /\ UNCHANGED DEFAULT_SETTINGS

SettingsInit ==
    /\ DEFAULT_SETTINGS = InitialDefaults
    /\ settingsStore \in StoredSettings
    /\ settingsLast = [op |-> "none", fail |-> "none"]

SettingsNext ==
    \E fail \in StorageFailures :
        \/ ReadSettings(fail)
        \/ \E k \in DOMAIN SettingValues : \E v \in SettingValues[k] :
              \/ updateSetting(k, v, fail)
              \/ saveSettings([InitialDefaults EXCEPT ![k] = v], fail)
        \/ resetSettings(fail)

(***************************************************************************)
(* Translation client (src/src/services/translate.ts).  A string is the    *)
(* sequence of its characters.  TRANSLATE_CACHE is a Map: its entries in   *)
(* insertion order.  translations is the log of the calls made, one record *)
(* per call, "fetching" and "parsing" being its two awaits.                *)
(***************************************************************************)
MaxTranslateCalls == 2

MaxBatches == 1

MAX_CACHE_SIZE == 500

Texts == {<<" ">>, <<"h", "i">>, <<"en2zh:", "h", "i">>}

Directions == {"en", "zh"}

\* A JSON value of a response body.
JsonNull == [t |-> "null", s |-> <<>>, a |-> <<>>]
JsonObject == [t |-> "object", s |-> <<>>, a |-> <<>>]
JsonString(s) == [t |-> "string", s |-> s, a |-> <<>>]
JsonArray(a) == [t |-> "array", s |-> <<>>, a |-> a]

Fragment(translated) == JsonArray(<<JsonString(translated), JsonString(<<"src">>)>>)

ResponseBodies ==
    { JsonObject,
      JsonArray(<<JsonArray(<<JsonNull>>)>>),
      JsonArray(<<JsonArray(<<JsonString(<<"a", "b">>)>>)>>),
      JsonArray(<<JsonArray(<<Fragment(<<"H", "i", " ">>), Fragment(<<"Y", "o">>)>>)>>) }

FetchResults == {"reject", "notOk", "ok"}

\* The cache after n earlier translateToEnglish calls, the first of them of
\* "hi" and the others of other texts.
CachedUpTo(n) ==
    [i \in 1..n |-> IF i = 1 THEN [key |-> <<"h", "i">>, value |-> <<"o", "l", "d">>]
                              ELSE [key |-> <<ToString(i)>>, value |-> <<"t">>]]

\* !text || text.trim() === ''
Blank(text) == \A k \in DOMAIN text : text[k] = " "

\* if (cached), if (translated): the empty string is falsy.
TruthyAlways(s) == TRUE
Truthy(s) == s # <<>>

\* return text: the input as it came.
UntranslatedEmpty(text) == <<>>
Untranslated(text) == text

CacheKey(text, dir) == IF dir = "zh" THEN <<"en2zh:">> \o text ELSE text

\* TRANSLATE_CACHE.get(key): the value, or undefined (here the empty string,
\* which is just as falsy).
CacheGet(cache, key) ==
    IF \E k \in DOMAIN cache : cache[k].key = key
    THEN cache[CHOOSE k \in DOMAIN cache : cache[k].key = key].value
    ELSE <<>>

\* Lines 16-22: at the bound the first key of the Map goes.
EvictedNewest(cache) ==
    IF Len(cache) >= MAX_CACHE_SIZE THEN SubSeq(cache, 1, Len(cache) - 1) ELSE cache
Evicted(cache) ==
    IF Len(cache) >= MAX_CACHE_SIZE THEN Tail(cache) ELSE cache

cacheSetDropped(cache, key, value) == cache
cacheSet(cache, key, value) ==
    LET kept == Evicted(cache)
    IN  IF \E k \in DOMAIN kept : kept[k].key = key
        THEN [k \in DOMAIN kept |->
                IF kept[k].key = key THEN [key |-> key, value |-> value] ELSE kept[k]]
        ELSE Append(kept, [key |-> key, value |-> value])

\* String(e) as Array.prototype.join applies it to one element.
ElementString(e) ==
    CASE e.t = "string" -> e.s
      [] e.t = "object" -> <<"[object Object]">>
      [] OTHER -> <<>>

\* item[0] of one element of data[0], as join('') renders it.
ItemFirst(item) ==
    CASE item.t = "array" -> IF item.a = <<>> THEN <<>> ELSE ElementString(item.a[1])
      [] item.t = "string" -> IF item.s = <<>> THEN <<>> ELSE <<item.s[1]>>
      [] OTHER -> <<>>

RECURSIVE JoinFirsts(_)
JoinFirsts(items) ==
    IF items = <<>> THEN <<>> ELSE ItemFirst(Head(items)) \o JoinFirsts(Tail(items))

\* Lines 65-68: threw when item[0] is read of a null item.
Extract(data) ==
    IF data.t = "array" /\ data.a # <<>> /\ data.a[1].t = "array"
    THEN IF \E k \in DOMAIN data.a[1].a : data.a[1].a[k].t = "null"
         THEN [threw |-> TRUE, translated |-> <<>>]
         ELSE [threw |-> FALSE, translated |-> JoinFirsts(data.a[1].a)]
    ELSE [threw |-> FALSE, translated |-> <<>>]

TranslateCall(text, dir, state, fetched, result, last) ==
    [text |-> text, dir |-> dir, state |-> state, fetched |-> fetched, result |-> result,
     outcome |-> "none", body |-> JsonNull,
     missed |-> ~\E k \in DOMAIN translateCache : translateCache[k].key = CacheKey(text, dir),
     after |-> last,
     servedBy |-> IF state = "done" /\ ~Blank(text) THEN cacheWriter[CacheKey(text, dir)] ELSE "none"]

\* A call up to its first await; last is the call that returned just before.
StartCall(text, dir, last) ==
    LET cached == CacheGet(translateCache, CacheKey(text, dir))
    IN  IF Blank(text)
        THEN TranslateCall(text, dir, "done", FALSE, Untranslated(text), last)
        ELSE IF Truthy(cached)
        THEN TranslateCall(text, dir, "done", FALSE, cached, last)
        ELSE TranslateCall(text, dir, "fetching", TRUE, <<>>, last)

Translate(text, dir) ==
    /\ Len(translations) < MaxTranslateCalls
    /\ LET call == StartCall(text, dir, justFinished)
       IN  /\ translations' = Append(translations, call)
           /\ justFinished' = IF call.state = "done" THEN Len(translations) + 1 ELSE 0
    /\ UNCHANGED <<translateCache, cacheWriter, batches>>

translateToEnglish(text) ==
    /\ text \in Texts
    /\ Translate(text, "en")
    /\ UNCHANGED outsideTranslate

translateToChinese(text) ==
    /\ text \in Texts
    /\ Translate(text, "zh")
    /\ UNCHANGED outsideTranslate

Settle(i, outcome, body, result) ==
    /\ translations' = [translations EXCEPT ![i].state = "done", ![i].outcome = outcome,
                                            ![i].body = body, ![i].result = result]
    /\ justFinished' = i

\* await translateFetch(url) settles.
FetchSettled(i, r) ==
    /\ i \in DOMAIN translations
    /\ translations[i].state = "fetching"
    /\ IF r = "ok"
       THEN /\ translations' = [translations EXCEPT ![i].state = "parsing"]
            /\ justFinished' = 0
       ELSE Settle(i, r, JsonNull, Untranslated(translations[i].text))
    /\ UNCHANGED <<translateCache, cacheWriter, batches>>
    /\ UNCHANGED outsideTranslate

\* await response.json() rejects.
JsonRejected(i) ==
    /\ i \in DOMAIN translations
    /\ translations[i].state = "parsing"
    /\ Settle(i, "jsonThrows", JsonNull, Untranslated(translations[i].text))
    /\ UNCHANGED <<translateCache, cacheWriter, batches>>
    /\ UNCHANGED outsideTranslate

\* await response.json() resolves to data.
JsonParsed(i, data) ==
    /\ i \in DOMAIN translations
    /\ translations[i].state = "parsing"
    /\ LET call == translations[i]
           got == Extract(data)
       IN  IF ~got.threw /\ Truthy(got.translated)
           THEN /\ translateCache' = cacheSet(translateCache, CacheKey(call.text, call.dir), got.translated)
                /\ cacheWriter' = [cacheWriter EXCEPT ![CacheKey(call.text, call.dir)] = call.dir]
                /\ Settle(i, "body", data, got.translated)
           ELSE /\ translateCache' = translateCache
                /\ cacheWriter' = cacheWriter
                /\ Settle(i, "body", data, Untranslated(call.text))
    /\ UNCHANGED batches
    /\ UNCHANGED outsideTranslate

\* texts.map(text => translateToEnglish(text)): the calls started one after
\* the other, each up to its first await.
RECURSIVE StartAll(_, _, _)
StartAll(log, last, texts) ==
    IF texts = <<>>
    THEN [log |-> log, last |-> last]
    ELSE LET call == StartCall(Head(texts), "en", last)
         IN  StartAll(Append(log, call),
                      IF call.state = "done" THEN Len(log) + 1 ELSE 0,
                      Tail(texts))

BatchInputs(room) == UNION {[1..n -> Texts] : n \in 0..room}

translateBatch(texts) ==
    /\ Len(batches) < MaxBatches
    /\ texts \in BatchInputs(MaxTranslateCalls - Len(translations))
    /\ LET started == StartAll(translations, justFinished, texts)
       IN  /\ translations' = started.log
           /\ justFinished' = started.last
    /\ batches' = Append(batches, [texts |-> texts, first |-> Len(translations) + 1,
                                   state |-> "pending", results |-> <<>>])
    /\ UNCHANGED <<translateCache, cacheWriter>>
    /\ UNCHANGED outsideTranslate

\* await Promise.all(...): one result per call, in the order of the calls.
PromiseAllNone(batch) == <<>>
PromiseAll(batch) ==
    [k \in 1..Len(batch.texts) |-> translations[batch.first + k - 1].result]

BatchResolved(b) ==
    /\ b \in DOMAIN batches
    /\ batches[b].state = "pending"
    /\ \A k \in 1..Len(batches[b].texts) : translations[batches[b].first + k - 1].state = "done"
    /\ batches' = [batches EXCEPT ![b].state = "resolved", ![b].results = PromiseAll(batches[b])]
    /\ justFinished' = 0
    /\ UNCHANGED <<translateCache, translations, cacheWriter>>
    /\ UNCHANGED outsideTranslate

CacheKeys == {CacheKey(text, dir) : text \in Texts, dir \in Directions}

TranslateInit ==
    /\ translateCache \in {<<>>, CachedUpTo(MAX_CACHE_SIZE)}
    /\ cacheWriter = [key \in CacheKeys |->
                        IF \E k \in DOMAIN translateCache : translateCache[k].key = key
                        THEN "en" ELSE "none"]
    /\ translations = <<>>
    /\ justFinished = 0
    /\ batches = <<>>

TranslateNext ==
    \/ \E text \in Texts : translateToEnglish(text)
    \/ \E text \in Texts : translateToChinese(text)
    \/ \E i \in 1..MaxTranslateCalls, r \in FetchResults : FetchSettled(i, r)
    \/ \E i \in 1..MaxTranslateCalls : JsonRejected(i)
    \/ \E i \in 1..MaxTranslateCalls, data \in ResponseBodies : JsonParsed(i, data)

\* The translation client as translateBatch drives it.
BatchNext ==
    \/ \E texts \in BatchInputs(MaxTranslateCalls) : translateBatch(texts)
    \/ \E i \in 1..MaxTranslateCalls, r \in FetchResults : FetchSettled(i, r)
    \/ \E i \in 1..MaxTranslateCalls : JsonRejected(i)
    \/ \E i \in 1..MaxTranslateCalls, data \in ResponseBodies : JsonParsed(i, data)
    \/ \E b \in 1..MaxBatches : BatchResolved(b)

(***************************************************************************)
(* The has-more resolver of the shell on its own (src/src/App.tsx,         *)
(* resolveHasMore): one call on any page number and any result.            *)
(***************************************************************************)
FullPage == [i \in 1..FEED_PAGE_SIZE |-> i]

\* The results a loader may hand to resolveHasMore.
HasMoreInputs ==
    [videos : {<<>>, <<1>>, FullPage}, hasMore : {"absent", "true", "false"},
     total : {None, Some(0), Some(FEED_PAGE_SIZE), Some(FEED_PAGE_SIZE + 1)},
     pageSize : {None, Some(FEED_PAGE_SIZE), Some(1)},
     error : {""}]

ResolveHasMore(pageNum, result) ==
    /\ resolved' = [pageNum |-> pageNum, result |-> result,
                    value |-> resolveHasMore(pageNum, result)]
    /\ UNCHANGED outsideHasMore

HasMoreInit ==
    resolved = [pageNum |-> 0,
                result |-> [videos |-> <<>>, hasMore |-> "absent", total |-> None,
                            pageSize |-> None, error |-> ""],
                value |-> FALSE]

HasMoreNext ==
    \E pageNum \in 1..MaxPage, result \in HasMoreInputs : ResolveHasMore(pageNum, result)

(***************************************************************************)
(* getVideoComments of the API client (src/src/services/bilibili.ts).      *)
(* commentsCall is the one call under way or returned last.  A comment is  *)
(* kept as its place in a list only: the lists are their lengths, and the  *)
(* translation of the messages, which adds messageEn to each comment and   *)
(* cannot fail the call, is left out.                                      *)
(***************************************************************************)
MaxCursor == 1

CandidateFailures == {"http", "html", "json", "code"}
CandidateRejections == {"fetchRejects", "textRejects"}

\* data of a response with code 0, as far as the function reads it.
CommentPayloads ==
    [replies : {0, 1}, top : {0, 1}, total : {0, COMMENTS_PAGE_SIZE, 2 * COMMENTS_PAGE_SIZE + 5},
     isEnd : {"absent", "true", "false"}, nextOffset : {"absent", "40", "x"},
     cursorNext : {None, Some(5)}]

NoPayload ==
    [replies |-> 0, top |-> 0, total |-> 0, isEnd |-> "absent", nextOffset |-> "absent",
     cursorNext |-> None]

\* Number.parseInt(raw, 10) of the offsets above, None where it is NaN.
ParseInt(raw) == IF raw = "40" THEN Some(40) ELSE None

\* Math.ceil(a / b)
Ceil(a, b) == (a + b - 1) \div b

\* What each failure leaves in lastError.
LastError(failure, message) ==
    CASE failure = "http" -> "HTTP 412"
      [] failure = "html" -> "API returned HTML (blocked)"
      [] failure = "json" -> "Invalid JSON response"
      [] failure = "code" -> IF message = "" THEN "API error" ELSE message

EmptyComments(pageNum, err) ==
    [comments |-> 0, total |-> 0, page |-> pageNum, hasMore |-> FALSE, nextCursor |-> None,
     requiresLogin |-> None, error |-> err]

\* urlsToTry
UrlsToTry(wbiUrl) ==
    (IF wbiUrl THEN <<"wbi">> ELSE <<>>) \o <<"main", "legacy">>

\* Lines 1010-1099: the result made of the data that was accepted.
HasMoreOfReplies(regular, pageNum, totalPages) == regular > 0 /\ pageNum < totalPages

CommentsPage(pageCursor, data) ==
    LET pageNum == pageCursor + 1
        isFirstPage == pageNum = 1
        regular == data.replies
        top == IF isFirstPage THEN data.top ELSE 0
        totalPages == IF data.total > 0 THEN Ceil(data.total, COMMENTS_PAGE_SIZE) ELSE 0
        flagged == data.isEnd # "absent"
        cursorHasMore == data.isEnd = "false"
        shouldHaveMore == IF flagged THEN cursorHasMore ELSE pageNum < totalPages
        more == IF flagged THEN cursorHasMore ELSE HasMoreOfReplies(regular, pageNum, totalPages)
        offset == IF data.nextOffset = "absent" THEN None ELSE ParseInt(data.nextOffset)
        next == IF offset # None THEN Some(offset[1] \div COMMENTS_PAGE_SIZE)
                ELSE IF data.cursorNext # None THEN data.cursorNext
                ELSE Some(pageCursor + 1)
    IN  [comments |-> top + regular, total |-> data.total, page |-> pageNum,
         hasMore |-> more, nextCursor |-> IF more THEN next ELSE None,
         requiresLogin |-> Some(shouldHaveMore /\ regular = 0 /\ ~isFirstPage),
         error |-> None]

\* The call up to its first candidate request.  fetchedAid is what
\* getAidFromBvid gave (None without a bvid or without an answer), wbiUrl
\* whether buildWbiUrl gave a signed URL.
getVideoComments(aid, fetchedAid, cursor, wbiUrl) ==
    /\ commentsCall.state # "fetching"
    /\ LET effectiveAid == IF fetchedAid # None THEN fetchedAid[1] ELSE IF aid > 0 THEN aid ELSE 0
           pageCursor == IF cursor > 0 THEN cursor ELSE 0
       IN  commentsCall' =
             IF effectiveAid = 0
             THEN [state |-> "done", aid |-> 0, pageCursor |-> pageCursor, urls |-> <<>>,
                   tried |-> <<>>, lastError |-> None, data |-> NoPayload,
                   result |-> EmptyComments(1, None)]
             ELSE [state |-> "fetching", aid |-> effectiveAid, pageCursor |-> pageCursor,
                   urls |-> UrlsToTry(wbiUrl), tried |-> <<>>, lastError |-> None,
                   data |-> NoPayload, result |-> EmptyComments(1, None)]
    /\ UNCHANGED outsideCommentsApi

\* The candidate under way is Len(tried) + 1.  It fails: continue, or leave
\* the loop after the last candidate.
CandidateFailed(failure, message) ==
    /\ commentsCall.state = "fetching"
    /\ failure \in CandidateFailures
    /\ LET label == commentsCall.urls[Len(commentsCall.tried) + 1]
           tried == Append(commentsCall.tried, [label |-> label, outcome |-> failure])
           lastError == LastError(failure, message)
       IN  commentsCall' =
             IF Len(tried) < Len(commentsCall.urls)
             THEN [commentsCall EXCEPT !.tried = tried, !.lastError = Some(lastError)]
             ELSE [commentsCall EXCEPT !.tried = tried, !.lastError = Some(lastError),
                                       !.state = "done",
                                       !.result = EmptyComments(commentsCall.pageCursor + 1,
                                                                Some(lastError))]
    /\ UNCHANGED outsideCommentsApi

\* await apiFetch(...) or await response.text() rejects: the outer catch.
CandidateRejected(rejection) ==
    /\ commentsCall.state = "fetching"
    /\ rejection \in CandidateRejections
    /\ LET label == commentsCall.urls[Len(commentsCall.tried) + 1]
       IN  commentsCall' =
             [commentsCall EXCEPT !.tried = Append(@, [label |-> label, outcome |-> rejection]),
                                  !.state = "done",
                                  !.result = EmptyComments(1, None)]
    /\ UNCHANGED outsideCommentsApi

\* The candidate answers valid JSON with code 0: data = parsed; break.
CandidateAccepted(data) ==
    /\ commentsCall.state = "fetching"
    /\ data \in CommentPayloads
    /\ LET label == commentsCall.urls[Len(commentsCall.tried) + 1]
       IN  commentsCall' =
             [commentsCall EXCEPT !.tried = Append(@, [label |-> label, outcome |-> "ok"]),
                                  !.state = "done",
                                  !.data = data,
                                  !.result = CommentsPage(commentsCall.pageCursor, data)]
    /\ UNCHANGED outsideCommentsApi

CommentsApiInit ==
    commentsCall = [state |-> "idle", aid |-> 0, pageCursor |-> 0, urls |-> <<>>,
                    tried |-> <<>>, lastError |-> None, data |-> NoPayload,
                    result |-> EmptyComments(1, None)]

CommentsApiNext ==
    \/ \E aid \in {0, 7}, fetchedAid \in {None, Some(7)}, cursor \in 0..MaxCursor,
          wbiUrl \in BOOLEAN : getVideoComments(aid, fetchedAid, cursor, wbiUrl)
    \/ \E failure \in CandidateFailures, message \in {"", "blocked"} :
          CandidateFailed(failure, message)
    \/ \E rejection \in CandidateRejections : CandidateRejected(rejection)
    \/ \E data \in CommentPayloads : CandidateAccepted(data)

(***************************************************************************)
(* ChannelPanel (src/src/components/ChannelPanel.tsx): one mounted panel   *)
(* of one channel.  Videos are their bvids; channelRequests are the        *)
(* awaited getChannelVideos calls of the mounted panel, a load-more call   *)
(* with the videos and the page its callback closed over.                  *)
(***************************************************************************)
ChannelTotals == {0, 2, 3}

ChannelResults == [videos : PageContents, total : ChannelTotals]

ChannelOutcomes == [kind : {"ok"}, result : ChannelResults] \cup [kind : {"throw"}]

\* result.videos.filter(v => !existingBvids.has(v.bvid))
NewVideosUnfiltered(existing, incoming) == incoming
NewVideos(existing, incoming) ==
    SelectSeq(incoming, LAMBDA v : \A i \in DOMAIN existing : existing[i] # v)

ChannelIdle(kind) == [kind |-> kind, videos |-> <<>>, before |-> <<>>]

\* The panel mounts: its state hooks take their initial values and the effect
\* on owner.mid calls loadChannel.
ChannelMount ==
    /\ ~channelMounted
    /\ channelMounted' = TRUE
    /\ channelVideos' = <<>>
    /\ channelPage' = 1
    /\ channelTotal' = 0
    /\ channelHasMore' = TRUE
    /\ channelLoading' = TRUE
    /\ channelLoadingMore' = FALSE
    /\ channelError' = ""
    /\ channelRequests' = <<[kind |-> "channel", page |-> 1, videos |-> <<>>]>>
    /\ channelLast' = ChannelIdle("mount")
    /\ UNCHANGED outsideChannel

\* The panel is closed: the state of the instance is gone, and what its
\* requests answer later reaches no mounted component.
ChannelUnmount ==
    /\ channelMounted
    /\ channelMounted' = FALSE
    /\ channelRequests' = <<>>
    /\ channelLast' = ChannelIdle("unmount")
    /\ UNCHANGED <<channelVideos, channelPage, channelTotal, channelHasMore, channelLoading,
                   channelLoadingMore, channelError>>
    /\ UNCHANGED outsideChannel

\* The continuation of loadChannel after its Promise.all.
LoadChannelResponse(i, o) ==
    /\ channelMounted
    /\ i \in DOMAIN channelRequests
    /\ channelRequests[i].kind = "channel"
    /\ channelRequests' = RemoveAt(channelRequests, i)
    /\ IF o.kind = "throw"
       THEN /\ channelError' = "Failed to load channel"
            /\ UNCHANGED <<channelVideos, channelTotal>>
       ELSE /\ channelVideos' = o.result.videos
            /\ channelTotal' = o.result.total
            /\ UNCHANGED channelError
    /\ channelLoading' = FALSE
    /\ channelLast' = [kind |-> "channel response",
                       videos |-> IF o.kind = "throw" THEN <<>> ELSE o.result.videos,
                       before |-> channelVideos]
    /\ UNCHANGED <<channelMounted, channelPage, channelHasMore, channelLoadingMore>>
    /\ UNCHANGED outsideChannel

\* A click on "Load more videos", which is rendered while hasMore holds, the
\* list is not empty and shorter than a known total, and is disabled while
\* loadingMore.
loadMore ==
    /\ channelMounted
    /\ channelVideos # <<>>
    /\ Len(channelVideos) < channelTotal \/ channelTotal = 0
    /\ ~(channelLoadingMore \/ ~channelHasMore)
    /\ channelLoadingMore' = TRUE
    /\ channelRequests' = Append(channelRequests,
                                 [kind |-> "more", page |-> channelPage + 1,
                                  videos |-> channelVideos])
    /\ channelLast' = ChannelIdle("more")
    /\ UNCHANGED <<channelMounted, channelVideos, channelPage, channelTotal, channelHasMore,
                   channelLoading, channelError>>
    /\ UNCHANGED outsideChannel

\* The continuation of loadMore after its await.
LoadMoreResponse(i, o) ==
    /\ channelMounted
    /\ i \in DOMAIN channelRequests
    /\ channelRequests[i].kind = "more"
    /\ channelRequests' = RemoveAt(channelRequests, i)
    /\ IF o.kind = "throw"
       THEN /\ channelError' = "Failed to load more videos"
            /\ UNCHANGED <<channelVideos, channelPage, channelTotal, channelHasMore>>
       ELSE LET newVideos == NewVideos(channelRequests[i].videos, o.result.videos)
            IN  /\ IF newVideos = <<>>
                   THEN /\ channelHasMore' = FALSE
                        /\ UNCHANGED <<channelVideos, channelPage>>
                   ELSE /\ channelVideos' = channelVideos \o newVideos
                        /\ channelPage' = channelRequests[i].page
                        /\ UNCHANGED channelHasMore
                /\ channelTotal' = o.result.total
                /\ UNCHANGED channelError
    /\ channelLoadingMore' = FALSE
    /\ channelLast' = [kind |-> IF o.kind = "throw" THEN "more failed" ELSE "more response",
                       videos |-> IF o.kind = "throw" THEN <<>> ELSE o.result.videos,
                       before |-> channelVideos]
    /\ UNCHANGED <<channelMounted, channelLoading>>
    /\ UNCHANGED outsideChannel

ChannelInit ==
    /\ channelMounted = FALSE
    /\ channelVideos = <<>>
    /\ channelPage = 1
    /\ channelTotal = 0
    /\ channelHasMore = TRUE
    /\ channelLoading = TRUE
    /\ channelLoadingMore = FALSE
    /\ channelError = ""
    /\ channelRequests = <<>>
    /\ channelLast = ChannelIdle("none")

ChannelNext ==
    \/ ChannelMount
    \/ ChannelUnmount
    \/ \E i \in 1..2, o \in ChannelOutcomes : LoadChannelResponse(i, o)
    \/ loadMore
    \/ \E i \in 1..2, o \in ChannelOutcomes : LoadMoreResponse(i, o)

(***************************************************************************)
(* VideoPlayer overlays and keyboard shortcuts                             *)
(* (src/src/components/VideoPlayer.tsx): the state behind fullscreen, the  *)
(* quality menu and the shortcuts overlay of one mounted player, and the   *)
(* downloads it started.  qualities is the length of the qualities list.   *)
(***************************************************************************)
\* Bounds of the shortcut model.
MaxQualityRequests == 2
MaxKeyDownloads == 2

Keys == {"Escape", "?", "d", "f", "p"}

QualityCounts == {0, 2}

\* The statuses of a download that has not ended.
ActiveStatuses == {"pending", "downloading", "merging"}

\* What the layers are before a step, for the history.
Layers ==
    [open |-> keysOpen, fullscreen |-> isVideoFullscreen, menu |-> showDownloadMenu,
     shortcuts |-> showShortcuts, qualities |-> qualities,
     active |-> \E i \in DOMAIN keyDownloads : keyDownloads[i] \in ActiveStatuses]

KeysIdle(what) == [what |-> what, key |-> "", inInput |-> FALSE, before |-> Layers]

\* if (qualities.length > 0 && !downloadProgress)
MayToggleMenu == qualities > 0 /\ downloadProgress = None

\* The branch the Escape case of handleKeyDown takes.
EscapeTargetMenuFirst ==
    IF showDownloadMenu THEN "menu"
    ELSE IF isVideoFullscreen THEN "fullscreen"
    ELSE IF showShortcuts THEN "shortcuts"
    ELSE "player"
EscapeTarget ==
    IF isVideoFullscreen THEN "fullscreen"
    ELSE IF showDownloadMenu THEN "menu"
    ELSE IF showShortcuts THEN "shortcuts"
    ELSE "player"

\* The player mounts: the hooks take their initial values and the qualities
\* effect asks for the qualities of the video.
OpenKeys ==
    /\ ~keysOpen
    /\ keysOpen' = TRUE
    /\ isVideoFullscreen' = FALSE
    /\ showDownloadMenu' = FALSE
    /\ showShortcuts' = FALSE
    /\ qualities' = 0
    /\ downloadProgress' = None
    /\ qualityRequests' = 1
    /\ keyDownloads' = <<>>
    /\ keysLast' = KeysIdle("open")
    /\ UNCHANGED outsidePlayerKeys

\* getAvailableQualities(video.bvid).then(setQualities)
QualitiesLoaded(n) ==
    /\ keysOpen
    /\ qualityRequests > 0
    /\ qualityRequests' = qualityRequests - 1
    /\ qualities' = n
    /\ keysLast' = KeysIdle("qualities")
    /\ UNCHANGED <<keysOpen, isVideoFullscreen, showDownloadMenu, showShortcuts,
                   downloadProgress, keyDownloads>>
    /\ UNCHANGED outsidePlayerKeys

\* The player is shown another video: the effects on video.bvid close the menu,
\* leave fullscreen and ask for the qualities of the new video.
KeysVideoChanged ==
    /\ keysOpen
    /\ qualityRequests < MaxQualityRequests
    /\ qualityRequests' = qualityRequests + 1
    /\ showDownloadMenu' = FALSE
    /\ isVideoFullscreen' = FALSE
    /\ keysLast' = KeysIdle("video")
    /\ UNCHANGED <<keysOpen, showShortcuts, qualities, downloadProgress, keyDownloads>>
    /\ UNCHANGED outsidePlayerKeys

\* handleKeyDown(e): the keydown listener of the window.
handleKeyDown(key, inInput) ==
    /\ keysOpen
    /\ keysLast' = [what |-> "key", key |-> key, inInput |-> inInput, before |-> Layers]
    /\ IF inInput
       THEN UNCHANGED <<keysOpen, isVideoFullscreen, showDownloadMenu, showShortcuts>>
       ELSE CASE key = "Escape" ->
                   /\ isVideoFullscreen' = IF EscapeTarget = "fullscreen" THEN FALSE
                                           ELSE isVideoFullscreen
                   /\ showDownloadMenu' = IF EscapeTarget = "menu" THEN FALSE
                                          ELSE showDownloadMenu
                   /\ showShortcuts' = IF EscapeTarget = "shortcuts" THEN FALSE
                                       ELSE showShortcuts
                   /\ keysOpen' = (EscapeTarget # "player")
              [] key = "?" ->
                   /\ showShortcuts' = ~showShortcuts
                   /\ UNCHANGED <<keysOpen, isVideoFullscreen, showDownloadMenu>>
              [] key = "d" ->
                   /\ showDownloadMenu' = IF MayToggleMenu THEN ~showDownloadMenu
                                          ELSE showDownloadMenu
                   /\ UNCHANGED <<keysOpen, isVideoFullscreen, showShortcuts>>
              [] key = "f" ->
                   /\ isVideoFullscreen' = ~isVideoFullscreen
                   /\ UNCHANGED <<keysOpen, showDownloadMenu, showShortcuts>>
              [] OTHER ->
                   UNCHANGED <<keysOpen, isVideoFullscreen, showDownloadMenu, showShortcuts>>
    /\ UNCHANGED <<qualities, downloadProgress, qualityRequests, keyDownloads>>
    /\ UNCHANGED outsidePlayerKeys

\* The Download / Retry button of the header, shown while no progress or an
\* error is displayed and enabled while there are qualities.
DownloadButtonClick ==
    /\ keysOpen /\ ~isVideoFullscreen
    /\ downloadProgress = None \/ downloadProgress = Some("error")
    /\ qualities > 0
    /\ downloadProgress' = None
    /\ showDownloadMenu' = ~showDownloadMenu
    /\ keysLast' = KeysIdle("button")
    /\ UNCHANGED <<keysOpen, isVideoFullscreen, showShortcuts, qualities, qualityRequests,
                   keyDownloads>>
    /\ UNCHANGED outsidePlayerKeys

\* handleDownload(quality), a click in the quality menu: the menu closes and
\* downloadVideo reports 'pending' before its first await.
handleDownload ==
    /\ keysOpen /\ ~isVideoFullscreen
    /\ showDownloadMenu /\ qualities > 0
    /\ Len(keyDownloads) < MaxKeyDownloads
    /\ showDownloadMenu' = FALSE
    /\ downloadProgress' = Some("pending")
    /\ keyDownloads' = Append(keyDownloads, "pending")
    /\ keysLast' = KeysIdle("download")
    /\ UNCHANGED <<keysOpen, isVideoFullscreen, showShortcuts, qualities, qualityRequests>>
    /\ UNCHANGED outsidePlayerKeys

\* downloadVideo reports on: 'downloading' after the stream lookup and per
\* chunk, 'merging' and 'completed' in one piece, or 'error'.
DownloadReported(i, status) ==
    /\ keysOpen
    /\ i \in DOMAIN keyDownloads
    /\ keyDownloads[i] \in ActiveStatuses
    /\ status \in {"downloading", "error"}
          \/ (status = "completed" /\ keyDownloads[i] = "downloading")
    /\ keyDownloads' = [keyDownloads EXCEPT ![i] = status]
    /\ downloadProgress' = Some(status)
    /\ keysLast' = KeysIdle("progress")
    /\ UNCHANGED <<keysOpen, isVideoFullscreen, showDownloadMenu, showShortcuts, qualities,
                   qualityRequests>>
    /\ UNCHANGED outsidePlayerKeys

PlayerKeysInit ==
    /\ keysOpen = FALSE
    /\ isVideoFullscreen = FALSE
    /\ showDownloadMenu = FALSE
    /\ showShortcuts = FALSE
    /\ qualities = 0
    /\ downloadProgress = None
    /\ qualityRequests = 0
    /\ keyDownloads = <<>>
    /\ keysLast = [what |-> "none", key |-> "", inInput |-> FALSE,
                   before |-> [open |-> FALSE, fullscreen |-> FALSE, menu |-> FALSE,
                               shortcuts |-> FALSE, qualities |-> 0, active |-> FALSE]]

PlayerKeysNext ==
    \/ OpenKeys
    \/ \E n \in QualityCounts : QualitiesLoaded(n)
    \/ KeysVideoChanged
    \/ \E key \in Keys, inInput \in BOOLEAN : handleKeyDown(key, inInput)
    \/ DownloadButtonClick
    \/ handleDownload
    \/ \E i \in 1..MaxKeyDownloads, status \in {"downloading", "completed", "error"} :
           DownloadReported(i, status)

(***************************************************************************)
(* useAuth (src/unnamed/part_010): the user of the hook, its auth checks   *)
(* and its logout calls.  sessionCookie says whether the API client holds  *)
(* the cookie of a signed-in session; getCurrentUser answers for the       *)
(* cookie its request was sent with.                                       *)
(***************************************************************************)
\* Bounds of the hook model.
MaxAuthChecks == 2
MaxLogouts == 1

HookIdle(kind) == [kind |-> kind, overtaken |-> FALSE]

\* checkAuth() up to its first await, from the mount effect or refreshAuth.
checkAuth ==
    /\ Len(authChecks) < MaxAuthChecks
    /\ authLoading' = TRUE
    /\ authChecks' = Append(authChecks, [pc |-> "cookies", signedIn |-> FALSE,
                                         overtaken |-> FALSE])
    /\ hookLast' = HookIdle("check")
    /\ UNCHANGED <<authUser, sessionCookie, savedSession, logoutsInFlight>>

HookMount ==
    /\ ~hookMounted
    /\ hookMounted' = TRUE
    /\ checkAuth
    /\ UNCHANGED outsideUseAuth

refreshAuth ==
    /\ hookMounted
    /\ UNCHANGED hookMounted
    /\ checkAuth
    /\ UNCHANGED outsideUseAuth

\* loadSavedCookies() resolved for check i, then checkLoginStatus up to the
\* request of getCurrentUser.
CookiesLoaded(i) ==
    /\ i \in DOMAIN authChecks /\ authChecks[i].pc = "cookies"
    /\ sessionCookie' = (sessionCookie \/ savedSession)
    /\ authChecks' = [authChecks EXCEPT ![i] = [@ EXCEPT !.pc = "user",
                                                  !.signedIn = sessionCookie']]
    /\ hookLast' = HookIdle("cookies")
    /\ UNCHANGED <<hookMounted, authUser, authLoading, savedSession, logoutsInFlight>>
    /\ UNCHANGED outsideUseAuth

\* checkLoginStatus() resolved for check i: setUser(currentUser), setLoading(false).
UserResolved(i) ==
    /\ i \in DOMAIN authChecks /\ authChecks[i].pc = "user"
    /\ authUser' = authChecks[i].signedIn
    /\ authLoading' = FALSE
    /\ authChecks' = RemoveAt(authChecks, i)
    /\ hookLast' = [kind |-> "resolved", overtaken |-> authChecks[i].overtaken]
    /\ UNCHANGED <<hookMounted, sessionCookie, savedSession, logoutsInFlight>>
    /\ UNCHANGED outsideUseAuth

\* The login modal signed the user in: checkQRCodeStatus saved and set the cookies.
SignedIn ==
    /\ hookMounted
    /\ ~sessionCookie
    /\ sessionCookie' = TRUE
    /\ savedSession' = TRUE
    /\ hookLast' = HookIdle("signed in")
    /\ UNCHANGED <<hookMounted, authUser, authLoading, authChecks, logoutsInFlight>>
    /\ UNCHANGED outsideUseAuth

\* logout() of the hook up to the await of authLogout().
HookLogout ==
    /\ hookMounted
    /\ logoutsInFlight < MaxLogouts
    /\ logoutsInFlight' = logoutsInFlight + 1
    /\ authChecks' = [i \in DOMAIN authChecks |-> [authChecks[i] EXCEPT !.overtaken = TRUE]]
    /\ hookLast' = HookIdle("logout")
    /\ UNCHANGED <<hookMounted, authUser, authLoading, sessionCookie, savedSession>>
    /\ UNCHANGED outsideUseAuth

\* authLogout() resolved, its store calls having succeeded: the cookies are
\* gone, then setUser(null).
LogoutResolved ==
    /\ logoutsInFlight > 0
    /\ logoutsInFlight' = logoutsInFlight - 1
    /\ sessionCookie' = FALSE
    /\ savedSession' = FALSE
    /\ authUser' = FALSE
    /\ hookLast' = HookIdle("logged out")
    /\ UNCHANGED <<hookMounted, authLoading, authChecks>>
    /\ UNCHANGED outsideUseAuth

\* A fresh page; an earlier run may have left a session in the store.
UseAuthInit ==
    /\ hookMounted = FALSE
    /\ authUser = FALSE
    /\ authLoading = TRUE
    /\ authChecks = <<>>
    /\ sessionCookie = FALSE
    /\ savedSession \in BOOLEAN
    /\ logoutsInFlight = 0
    /\ hookLast = HookIdle("none")

UseAuthNext ==
    \/ HookMount
    \/ refreshAuth
    \/ \E i \in 1..MaxAuthChecks : CookiesLoaded(i)
    \/ \E i \in 1..MaxAuthChecks : UserResolved(i)
    \/ SignedIn
    \/ HookLogout
    \/ LogoutResolved

(***************************************************************************)
(* useFavorites (src/src/hooks/useFavorites.ts) over the favorites service *)
(* (src/src/services/favorites.ts) in the native shell; useSubscriptions   *)
(* has the same shape.  An entry is its bvid.  Each call of the hook is a  *)
(* record of favoriteCalls that moves on when one of its awaits resolves:  *)
(* the store answers a get with what it holds at that moment and applies a *)
(* set at that moment, and the awaits of different calls resolve in any    *)
(* order.                                                                  *)
(***************************************************************************)
\* Bound of the hook model: the mutator calls issued on one mounted hook.
MaxMutatorCalls == 2

FavoriteBvids == {"BVa", "BVb"}

\* favorites.some(item => item.video.bvid === video.bvid)
IsFav(list, bvid) == \E i \in DOMAIN list : list[i] = bvid

\* prev => prev.some(...) ? prev : [{ video, favoritedAt }, ...prev]
PatchAdded(prev, bvid) == IF IsFav(prev, bvid) THEN prev ELSE <<bvid>> \o prev

\* prev => prev.filter(item => item.video.bvid !== bvid)
PatchRemoved(prev, bvid) == SelectSeq(prev, LAMBDA b : b # bvid)

FavoriteCall(op, bvid) == [op |-> op, bvid |-> bvid, pc |-> "get", read |-> <<>>]

\* The hook mounts: loadFavorites() up to the await of getFavorites().
FavoritesMount ==
    /\ ~favoritesMounted
    /\ favoritesMounted' = TRUE
    /\ favoritesLoading' = TRUE
    /\ favoriteCalls' = Append(favoriteCalls, FavoriteCall("load", ""))
    /\ UNCHANGED <<favorites, favoritesStore, mutatorCalls, toggleLog>>
    /\ UNCHANGED outsideFavoritesHook

\* A mutator of the hook up to its first await.
Mutate(op, bvid) ==
    /\ favoritesMounted
    /\ mutatorCalls < MaxMutatorCalls
    /\ mutatorCalls' = mutatorCalls + 1
    /\ favoriteCalls' = Append(favoriteCalls, FavoriteCall(op, bvid))
    /\ UNCHANGED <<favoritesMounted, favorites, favoritesLoading, favoritesStore>>
    /\ UNCHANGED outsideFavoritesHook

\* addToFavorites(video) / removeFromFavorites(bvid) of the hook, called directly.
HookAddToFavorites(bvid) ==
    /\ Mutate("add", bvid)
    /\ toggleLog' = Append(toggleLog, [bvid |-> bvid, toggle |-> FALSE, settled |-> FALSE,
                                       inHook |-> FALSE, inStore |-> FALSE])

HookRemoveFromFavorites(bvid) ==
    /\ Mutate("remove", bvid)
    /\ toggleLog' = Append(toggleLog, [bvid |-> bvid, toggle |-> FALSE, settled |-> FALSE,
                                       inHook |-> FALSE, inStore |-> FALSE])

\* toggleFavorite(video): isFav is read from the favorites of the hook.
toggleFavorite(bvid) ==
    /\ Mutate(IF IsFav(favorites, bvid) THEN "remove" ELSE "add", bvid)
    /\ toggleLog' = Append(toggleLog,
          [bvid |-> bvid, toggle |-> TRUE,
           settled |-> (favoriteCalls = <<>>),
           inHook |-> IsFav(favorites, bvid), inStore |-> IsFav(favoritesStore, bvid)])

\* s.get('favorites') of call i resolves: getFavorites() of the load, or the one
\* inside the service's add or remove, which goes on to s.set unless the entry
\* is there already.
FavoritesRead(i) ==
    /\ i \in DOMAIN favoriteCalls /\ favoriteCalls[i].pc = "get"
    /\ LET call == favoriteCalls[i]
           next == IF call.op = "add" /\ ~IsFav(favoritesStore, call.bvid) THEN "set"
                   ELSE IF call.op = "remove" THEN "set"
                   ELSE "patch"
       IN favoriteCalls' = [favoriteCalls EXCEPT ![i] = [call EXCEPT !.pc = next,
                                                           !.read = favoritesStore]]
    /\ UNCHANGED <<favoritesMounted, favorites, favoritesLoading, favoritesStore,
                   mutatorCalls, toggleLog>>
    /\ UNCHANGED outsideFavoritesHook

\* s.set('favorites', ...) and s.save() of call i: the list the call read, with
\* the entry put in front or filtered out.
FavoritesWritten(i) ==
    /\ i \in DOMAIN favoriteCalls /\ favoriteCalls[i].pc = "set"
    /\ LET call == favoriteCalls[i]
       IN /\ favoritesStore' = IF call.op = "add" THEN <<call.bvid>> \o call.read
                               ELSE PatchRemoved(call.read, call.bvid)
          /\ favoriteCalls' = [favoriteCalls EXCEPT ![i] = [call EXCEPT !.pc = "patch"]]
    /\ UNCHANGED <<favoritesMounted, favorites, favoritesLoading, mutatorCalls, toggleLog>>
    /\ UNCHANGED outsideFavoritesHook

\* The continuation of call i in the hook: setFavorites.
FavoritesPatched(i) ==
    /\ i \in DOMAIN favoriteCalls /\ favoriteCalls[i].pc = "patch"
    /\ LET call == favoriteCalls[i]
       IN /\ favorites' = CASE call.op = "load" -> call.read
                            [] call.op = "add" -> PatchAdded(favorites, call.bvid)
                            [] OTHER -> PatchRemoved(favorites, call.bvid)
          /\ favoritesLoading' = IF call.op = "load" THEN FALSE ELSE favoritesLoading
    /\ favoriteCalls' = RemoveAt(favoriteCalls, i)
    /\ UNCHANGED <<favoritesMounted, favoritesStore, mutatorCalls, toggleLog>>
    /\ UNCHANGED outsideFavoritesHook

\* A fresh page; an earlier session may have left favorites in the store.
FavoritesHookInit ==
    /\ favoritesMounted = FALSE
    /\ favorites = <<>>
    /\ favoritesLoading = TRUE
    /\ favoritesStore \in {<<>>, <<"BVa">>, <<"BVb", "BVa">>}
    /\ favoriteCalls = <<>>
    /\ mutatorCalls = 0
    /\ toggleLog = <<>>

FavoritesHookNext ==
    \/ FavoritesMount
    \/ \E bvid \in FavoriteBvids : HookAddToFavorites(bvid)
    \/ \E bvid \in FavoriteBvids : HookRemoveFromFavorites(bvid)
    \/ \E bvid \in FavoriteBvids : toggleFavorite(bvid)
    \/ \E i \in 1..(MaxMutatorCalls + 1) : FavoritesRead(i)
    \/ \E i \in 1..(MaxMutatorCalls + 1) : FavoritesWritten(i)
    \/ \E i \in 1..(MaxMutatorCalls + 1) : FavoritesPatched(i)

(***************************************************************************)
(* useSettings (src/src/hooks/useSettings.ts) over getSettings and         *)
(* saveSettings in the native shell.  updateSetting is rebuilt when        *)
(* settings changes, so a call works on the settings of the last render;   *)
(* the awaits of different calls resolve in any order.                     *)
(***************************************************************************)
\* Bound of the hook model: the updateSetting calls on one mounted hook.
MaxSettingUpdates == 2

\* const newSettings = { ...settings, [key]: value }
Patched(settings, key, value) == [settings EXCEPT ![key] = value]

\* The hook mounts: useState with the defaults, loadSettings() up to its await.
SettingsHookMount ==
    /\ ~settingsMounted
    /\ settingsMounted' = TRUE
    /\ settingsLoading' = TRUE
    /\ settingsCalls' = Append(settingsCalls, [op |-> "load", pc |-> "get",
                                               value |-> InitialDefaults])
    /\ UNCHANGED <<hookSettings, renderedSettings, savedSettings, updateLog>>
    /\ UNCHANGED outsideSettingsHook

\* The component renders again: the callbacks close over the current settings.
SettingsRender ==
    /\ settingsMounted
    /\ renderedSettings # hookSettings
    /\ renderedSettings' = hookSettings
    /\ UNCHANGED <<settingsMounted, hookSettings, settingsLoading, savedSettings,
                   settingsCalls, updateLog>>
    /\ UNCHANGED outsideSettingsHook

\* updateSetting(key, value) of the hook up to the await of saveSettings.
HookUpdateSetting(key, value) ==
    /\ settingsMounted
    /\ Len(updateLog) < MaxSettingUpdates
    /\ LET newSettings == Patched(renderedSettings, key, value)
       IN /\ hookSettings' = newSettings
          /\ settingsCalls' = Append(settingsCalls, [op |-> "save", pc |-> "set",
                                                     value |-> newSettings])
    /\ updateLog' = Append(updateLog, [key |-> key, value |-> value,
                                       before |-> hookSettings])
    /\ UNCHANGED <<settingsMounted, renderedSettings, settingsLoading, savedSettings>>
    /\ UNCHANGED outsideSettingsHook

\* s.get('settings') of the load resolves: { ...DEFAULT_SETTINGS, ...settings }.
SettingsRead(i) ==
    /\ i \in DOMAIN settingsCalls /\ settingsCalls[i].pc = "get"
    /\ settingsCalls' = [settingsCalls EXCEPT ![i] =
           [@ EXCEPT !.pc = "done",
                     !.value = IF savedSettings = None THEN InitialDefaults
                               ELSE Spread(InitialDefaults, savedSettings[1])]]
    /\ UNCHANGED <<settingsMounted, hookSettings, renderedSettings, settingsLoading,
                   savedSettings, updateLog>>
    /\ UNCHANGED outsideSettingsHook

\* s.set('settings', settings) and s.save() of a saveSettings call.
SettingsWritten(i) ==
    /\ i \in DOMAIN settingsCalls /\ settingsCalls[i].pc = "set"
    /\ savedSettings' = Some(settingsCalls[i].value)
    /\ settingsCalls' = [settingsCalls EXCEPT ![i] = [@ EXCEPT !.pc = "done"]]
    /\ UNCHANGED <<settingsMounted, hookSettings, renderedSettings, settingsLoading,
                   updateLog>>
    /\ UNCHANGED outsideSettingsHook

\* The continuation of call i in the hook: setSettings(loaded) after the load,
\* nothing after a save.
SettingsCallDone(i) ==
    /\ i \in DOMAIN settingsCalls /\ settingsCalls[i].pc = "done"
    /\ IF settingsCalls[i].op = "load"
       THEN /\ hookSettings' = settingsCalls[i].value
            /\ settingsLoading' = FALSE
       ELSE UNCHANGED <<hookSettings, settingsLoading>>
    /\ settingsCalls' = RemoveAt(settingsCalls, i)
    /\ UNCHANGED <<settingsMounted, renderedSettings, savedSettings, updateLog>>
    /\ UNCHANGED outsideSettingsHook

\* A fresh page; an older build may have stored a record of its own.
SettingsHookInit ==
    /\ settingsMounted = FALSE
    /\ hookSettings = InitialDefaults
    /\ renderedSettings = InitialDefaults
    /\ settingsLoading = TRUE
    /\ savedSettings \in StoredSettings
    /\ settingsCalls = <<>>
    /\ updateLog = <<>>

SettingsHookNext ==
    \/ SettingsHookMount
    \/ SettingsRender
    \/ \E k \in DOMAIN SettingValues : \E v \in SettingValues[k] : HookUpdateSetting(k, v)
    \/ \E i \in 1..(MaxSettingUpdates + 1) : SettingsRead(i)
    \/ \E i \in 1..(MaxSettingUpdates + 1) : SettingsWritten(i)
    \/ \E i \in 1..(MaxSettingUpdates + 1) : SettingsCallDone(i)

(***************************************************************************)
(* Specifications: one per subsystem, the others held in their initial state *)
(***************************************************************************)

\* Every subsystem at rest, in the native shell.
\* The services and panels outside the shell, the player and the login flow.
ServicesInit == DownloadInit /\ NavInit /\ HistoryInit /\ CollectionsInit /\ PlaylistsInit /\ SettingsInit /\ TranslateInit /\ HasMoreInit /\ CommentsApiInit /\ ChannelInit /\ PlayerKeysInit /\ UseAuthInit /\ FavoritesHookInit /\ SettingsHookInit

Init ==
    /\ ServicesInit
    /\ FeedInit /\ PlayerInit /\ PlatformInit /\ LoginInit /\ AuthInit /\ CapabilityInit

\* Nothing is left in storage by an earlier session or an older build, except
\* possibly in the storage of the one named service.
Fresh(service) ==
    /\ service = "auth" \/ (localStorageAuth = None /\ authFile = None)
    /\ service = "history" \/ (historyStore = <<>>)
    /\ service = "settings" \/ (settingsStore = None)
    /\ service = "translate" \/ (translateCache = <<>>)
    /\ service = "useAuth" \/ (savedSession = FALSE)
    /\ service = "favorites" \/ (favoritesStore = <<>>)
    /\ service = "settings hook" \/ (savedSettings = None)

\* Every subsystem at rest, in the native shell.
Quiet == Init /\ PlatformNative /\ Fresh("none")

\* Every subsystem at rest, on either platform.
QuietAnywhere == Init /\ Fresh("none")

\* The auth service on either platform, with what older builds may have left.
AuthStart == Init /\ Fresh("auth")

\* The history service with what an earlier session may have stored.
HistoryStart == Init /\ PlatformNative /\ Fresh("history")

\* The settings service with what an older build may have stored.
SettingsStart == Init /\ PlatformNative /\ Fresh("settings")

TranslateStart == Init /\ PlatformNative /\ Fresh("translate")

\* The favorites hook with what an earlier session may have stored.
FavoritesHookStart == Init /\ PlatformNative /\ Fresh("favorites")

\* The settings hook with what an older build may have stored.
SettingsHookStart == Init /\ PlatformNative /\ Fresh("settings hook")

\* The auth hook with the session an earlier run may have left in the store.
UseAuthStart == Init /\ PlatformNative /\ Fresh("useAuth")

SpecFeed == Quiet /\ [][FeedNext]_vars
SpecPlayer == Quiet /\ [][PlayerNext]_vars
SpecLogin == QuietAnywhere /\ [][LoginNext]_vars
SpecAuth == AuthStart /\ [][AuthNext]_vars
SpecCapability == QuietAnywhere /\ [][CapabilityNext]_vars
SpecDownload == Quiet /\ [][DownloadNext]_vars
SpecNav == Quiet /\ [][NavNext]_vars
SpecHistory == HistoryStart /\ [][HistoryNext]_vars
SpecCollections == Quiet /\ [][CollectionsNext]_vars
SpecPlaylists == Quiet /\ [][PlaylistsNext]_vars
SpecSettings == SettingsStart /\ [][SettingsNext]_vars
SpecTranslate == TranslateStart /\ [][TranslateNext]_vars
SpecBatch == TranslateStart /\ [][BatchNext]_vars
SpecHasMore == Quiet /\ [][HasMoreNext]_vars
SpecCommentsApi == Quiet /\ [][CommentsApiNext]_vars
SpecChannel == Quiet /\ [][ChannelNext]_vars
SpecPlayerKeys == Quiet /\ [][PlayerKeysNext]_vars
SpecUseAuth == UseAuthStart /\ [][UseAuthNext]_vars
SpecFavoritesHook == FavoritesHookStart /\ [][FavoritesHookNext]_vars
SpecSettingsHook == SettingsHookStart /\ [][SettingsHookNext]_vars

Next ==
    \/ SettingsHookNext
    \/ FavoritesHookNext
    \/ UseAuthNext
    \/ PlayerKeysNext
    \/ ChannelNext
    \/ CommentsApiNext
    \/ HasMoreNext
    \/ TranslateNext
    \/ BatchNext
    \/ SettingsNext
    \/ PlaylistsNext
    \/ CollectionsNext
    \/ HistoryNext
    \/ FeedNext \/ PlayerNext \/ LoginNext \/ AuthNext \/ CapabilityNext
    \/ DownloadNext \/ NavNext
Spec == Init /\ [][Next]_vars

(***************************************************************************)
(* Properties                                                               *)
(***************************************************************************)

\* C1: the loading flag is false only when no request issued for the current feed
\* key is still unresolved.
LoadingClearsOnlyWhenFeedIdle ==
    ~loading => \A i \in 1..Len(feedInFlight) : feedInFlight[i].feedKey # feedKeyRef

\* C2: a response whose feed key is no longer the current one changes nothing of the
\* shell's feed state (list, hasMore, error, and the loading bookkeeping).
StaleFeedResponseDiscarded ==
    [][(feedLast'.kind = "response" /\ feedLast'.stale)
          => UNCHANGED <<videos, hasMore, error, loading, pendingCountRef, initialLoad>>]_vars

\* C2 witness: a response that carried videos or a failure arrived under a
\* superseded feed key while another feed was showing.
StaleFeedResponseSeen ==
    /\ feedLast.kind = "response" /\ feedLast.stale /\ feedLast.carried
    /\ feedKeyRef # HomeKey

\* C3: a comments response requested for another video than the open one leaves
\* the open video's comments state alone.
StaleCommentsResponseIgnored ==
    [][(playerLast'.kind = "comments" /\ playerLast'.stale)
          => UNCHANGED <<comments, commentsTotal, hasMoreComments, nextCursor,
                         commentsRequireLogin, commentsError>>]_vars

\* C4: a related-videos response requested for another video than the open one
\* leaves the open video's related list and its loading flag alone.
StaleRelatedResponseIgnored ==
    [][(playerLast'.kind = "related" /\ playerLast'.stale)
          => UNCHANGED <<relatedVideos, loadingRelated>>]_vars

\* C5: a poll is issued only while the modal is mounted and open and a QR payload
\* has been obtained since it was last opened.
PollsOnlyWhileOpen ==
    loginLast.kind = "poll" => (loginMounted /\ showLoginModal /\ pollingEntitled)

\* C6: no poll is issued for a key for which a poll has already returned success
\* (0) or expired (86038).
NoPollAfterSettled ==
    loginLast.kind = "poll" => loginLast.key \notin settledKeys

\* C7: for one QR key the caller's success callback runs at most once.
SuccessCallbackOnce ==
    \A k \in 1..MaxQrKeys : successCalls[k] <= 1

\* C8 (as stated): under the browser backend the legacy key is absent after each
\* saveCookies, loadSavedCookies, checkQRCodeStatus and logout call.
LegacyKeyAbsentAfterEveryCall ==
    (~checkIsTauri /\ authLast.op # "none") => localStorageAuth = None

\* C8 (amended): under the browser backend no call writes a value under the legacy
\* key; the key is absent after each saveCookies, loadSavedCookies and logout call
\* and after a checkQRCodeStatus call that extracted cookies, and any other
\* checkQRCodeStatus call leaves it as it was; loadSavedCookies leaves the
\* in-memory session cookie as it was.
BrowserNeverPersistsCookies ==
    [][~checkIsTauri =>
         /\ localStorageAuth' \in {None, localStorageAuth}
         /\ (authLast'.op \in {"saveCookies", "loadSavedCookies", "logout"}
                => localStorageAuth' = None)
         /\ (authLast'.op = "checkQRCodeStatus"
                => localStorageAuth' = IF authLast'.given # NoCookies THEN None
                                       ELSE localStorageAuth)
         /\ (authLast'.op = "loadSavedCookies" => storedCookies' = storedCookies)]_vars

\* C8 witness: under the browser backend loadSavedCookies has run on a page that
\* had a cookie entry under the legacy key; the key is gone and the in-memory
\* cookie is what it was.
LegacyKeyClearedOnLoad ==
    /\ ~checkIsTauri
    /\ authLast.op = "loadSavedCookies" /\ authLast.hadLegacy
    /\ storedCookies = authLast.memoryBefore
    /\ localStorageAuth = None

\* C9: after logout() the in-memory session cookie is empty, under both backends
\* and whatever the store did.
LogoutClearsMemoryCookie ==
    authLast.op = "logout" => storedCookies = NoCookies

\* C10: the capability checks that have been evaluated all selected the same
\* branch: no module is on the browser branch while another is on the native one.
CapabilityChecksAgree ==
    \A m1, m2 \in CapabilityModules :
        (capability[m1] # "unevaluated" /\ capability[m2] # "unevaluated")
            => capability[m1] = capability[m2]

\* C11: a download whose request was aborted by cancelDownload while in flight
\* delivers no progress event after the cancellation and returns no result.
CancelledDownloadIsSilent ==
    \A i \in 1..Len(downloads) :
        downloads[i].cancelledAt # None
            => /\ Len(downloads[i].events) = downloads[i].cancelledAt[1]
               /\ downloads[i].result = None

\* C12: every call whose request is in flight and not yet aborted holds the
\* map entry of its bvid, so that cancelDownload(bvid) aborts it.
InFlightDownloadCancellable ==
    \A i \in 1..Len(downloads) :
        (downloads[i].pc \in {"fetch", "reading"} /\ ~downloads[i].aborted)
            => activeDownloads[downloads[i].bvid] = Some(i)

\* C13: a call whose resolved stream is DASH has delivered 'pending' and then one
\* 'error' naming the DASH-only limitation, and nothing else: no byte request,
\* no file save, no result.
DashDownloadRefused ==
    \A i \in 1..Len(downloads) :
        downloads[i].format = "dash"
            => /\ downloads[i].events = <<Progress("pending", ""),
                                          Progress("error", "This quality is DASH-only")>>
               /\ downloads[i].pc = "done"
               /\ ~downloads[i].byteRequest /\ ~downloads[i].saved
               /\ downloads[i].result = None

\* C13 witness: a DASH stream was refused while another download of the same
\* video was in flight, and the map still holds that other call.
DashRefusedBesideRunningDownload ==
    \E i, j \in 1..Len(downloads) :
        /\ downloads[i].format = "dash" /\ downloads[i].pc = "done"
        /\ downloads[j].bvid = downloads[i].bvid /\ downloads[j].pc = "reading"
        /\ activeDownloads[downloads[i].bvid] = Some(j)

\* C14: a playlist context that is set always contains the open video.
PlaylistContextHoldsOpenVideo ==
    playlistContext # None
        => (selectedVideo # None /\ InContext(playlistContext[1], selectedVideo[1]))

\* At most the cap of entries, at most one entry per bvid.
HistoryWellFormed(list) ==
    /\ Len(list) <= MAX_HISTORY_ITEMS
    /\ \A i, j \in 1..Len(list) : list[i] = list[j] => i = j

\* list `after` is list `before` with bvid moved or put in front, the rest in
\* its old order, cut at the cap.
MovedToFront(before, after, bvid) ==
    LET wasPresent == \E i \in 1..Len(before) : before[i] = bvid
        grown == IF wasPresent THEN Len(before) ELSE Len(before) + 1
        place(b) == CHOOSE i \in 1..Len(before) : before[i] = b
    IN /\ Len(after) = IF grown > MAX_HISTORY_ITEMS THEN MAX_HISTORY_ITEMS ELSE grown
       /\ after[1] = bvid
       /\ \A i \in 2..Len(after) : after[i] # bvid /\ \E k \in 1..Len(before) : before[k] = after[i]
       /\ \A i \in 2..(Len(after) - 1) : place(after[i]) < place(after[i + 1])

EntriesOf(list, key) == SelectSeq(list, LAMBDA e : e.key = key)

PlaylistVideosUnique ==
    /\ \A p \in 1..Len(playlists) :
          \A i, j \in 1..Len(playlists[p].videos) :
              playlists[p].videos[i] = playlists[p].videos[j] => i = j
    /\ playlistLast.op = "add"
          => LET was == FindPlaylist(playlistLast.before, playlistLast.id)
                 now == FindPlaylist(playlists, playlistLast.id)
             IN IF playlistLast.returned
                THEN /\ was # 0 /\ now # 0
                     /\ playlists[now].videos
                           = Append(playlistLast.before[was].videos, playlistLast.bvid)
                ELSE playlists = playlistLast.before

\* C18: getSettings() always returns a record with every field, and after a
\* resetSettings() whose write succeeded it returns the documented defaults.
ResetRestoresDefaults ==
    /\ DOMAIN getSettings("none").value = DOMAIN InitialDefaults
    /\ (settingsLast.op = "reset" /\ settingsLast.fail = "none")
          => getSettings("none").value = InitialDefaults

(***************************************************************************)
(* Translation client properties.                                          *)
(***************************************************************************)
\* The call made right after call i returned, for the same text, both of
\* them translateToEnglish.
NextEnglishCall(i, j) ==
    /\ i \in DOMAIN translations
    /\ j \in DOMAIN translations
    /\ translations[j].after = i
    /\ translations[i].dir = "en"
    /\ translations[j].dir = "en"
    /\ translations[j].text = translations[i].text

\* The response of call i carried a translation that is not empty.
GotTranslation(i) ==
    /\ translations[i].outcome = "body"
    /\ ~Extract(translations[i].body).threw
    /\ Extract(translations[i].body).translated # <<>>

\* C19 as stated: for a text that is not blank and not in the cache, two
\* translateToEnglish calls made one after the other issue exactly one request
\* (the first does, the second does not) and return the same string.
SequentialTranslationsShareOneRequest ==
    \A i, j \in DOMAIN translations :
        (NextEnglishCall(i, j) /\ translations[i].missed /\ ~Blank(translations[i].text))
            => /\ translations[i].fetched
               /\ ~translations[j].fetched
               /\ translations[j].result = translations[i].result

\* C19, amended: the same, when the request of the first call returned a
\* translation that is not empty.
TranslationCachedAfterSuccess ==
    \A i, j \in DOMAIN translations :
        (NextEnglishCall(i, j) /\ translations[i].missed /\ GotTranslation(i))
            => /\ translations[i].fetched
               /\ ~translations[j].fetched
               /\ translations[j].state = "done"
               /\ translations[j].result = translations[i].result
               /\ translations[j].result = Extract(translations[i].body).translated

\* C19 witness: a second call answered from a full cache with the translation
\* the first call fetched.
TranslationServedFromFullCache ==
    \E i, j \in DOMAIN translations :
        /\ NextEnglishCall(i, j)
        /\ translations[i].missed
        /\ GotTranslation(i)
        /\ ~translations[j].fetched
        /\ translations[j].result = <<"H", "i", " ", "Y", "o">>
        /\ Len(translateCache) = MAX_CACHE_SIZE

\* The request of a finished call failed: it rejected, answered with a status
\* that is not OK, or its body was no JSON or not an array whose first element
\* is an array.
RequestFailed(call) ==
    \/ call.outcome \in {"reject", "notOk", "jsonThrows"}
    \/ /\ call.outcome = "body"
       /\ ~(call.body.t = "array" /\ call.body.a # <<>> /\ call.body.a[1].t = "array")

\* C20: a translateToEnglish or translateToChinese call of a text that is not
\* empty whose request failed has returned the text itself, and so never the
\* empty string; no call is left without a result by a failure.
FailedTranslationReturnsInput ==
    \A i \in DOMAIN translations :
        (translations[i].text # <<>> /\ RequestFailed(translations[i]))
            => /\ translations[i].state = "done"
               /\ translations[i].result = translations[i].text
               /\ translations[i].result # <<>>

\* C20 witness: a translateToChinese call whose response was an object and a
\* translateToEnglish call whose request rejected both returned their text.
BothDirectionsFellBack ==
    \E i, j \in DOMAIN translations :
        /\ translations[i].dir = "zh"
        /\ translations[i].outcome = "body"
        /\ translations[i].body = JsonObject
        /\ translations[i].result = translations[i].text
        /\ translations[j].dir = "en"
        /\ translations[j].outcome = "reject"
        /\ translations[j].result = translations[j].text

\* The keys of the cache, oldest first.
KeysOf(cache) == [k \in DOMAIN cache |-> cache[k].key]

\* C21: in every step the cache keeps at most MAX_CACHE_SIZE entries; its keys
\* stay as they are, or one key is added last, without a loss or, when the
\* cache was full, with the loss of the first key and of no other; a call
\* answered from the cache leaves the cache as it was.
CacheBoundedFifo ==
    [][ \/ translateCache' = translateCache
        \/ /\ Len(translations') = Len(translations)
           /\ Len(translateCache') <= MAX_CACHE_SIZE
           /\ LET before == KeysOf(translateCache)
                  after == KeysOf(translateCache')
                  key == after[Len(after)]
              IN  \/ after = before
                  \/ after = Append(before, key)
                  \/ /\ Len(before) = MAX_CACHE_SIZE
                     /\ after = Append(Tail(before), key)
                  \/ /\ Len(before) = MAX_CACHE_SIZE
                     /\ after = Tail(before)
      ]_vars

\* C21 witness: the oldest entry of a full cache was read by the first call
\* and is gone after the insertion made by the second.
OldestEvictedThoughJustRead ==
    /\ Len(translations) = 2
    /\ translations[1].text = <<"h", "i">>
    /\ translations[1].dir = "en"
    /\ translations[1].result = <<"o", "l", "d">>
    /\ translations[2].after = 1
    /\ GotTranslation(2)
    /\ Len(translateCache) = MAX_CACHE_SIZE
    /\ translateCache[1].key = <<"2">>
    /\ translateCache[MAX_CACHE_SIZE].key = CacheKey(translations[2].text, translations[2].dir)

\* C22: a call answered from the cache is answered with an entry that a call
\* of the same direction wrote.
DirectionsNeverShareEntry ==
    \A j \in DOMAIN translations :
        translations[j].servedBy \in {"none", translations[j].dir}

\* C23: a resolved translateBatch call has one result per text, in the order
\* of the texts: the translation its request returned where that request
\* returned one, and the text itself where the request failed, whatever became
\* of the other items.
BatchResultsPerItem ==
    \A b \in DOMAIN batches :
        batches[b].state = "resolved"
            => /\ Len(batches[b].results) = Len(batches[b].texts)
               /\ \A k \in 1..Len(batches[b].texts) :
                     LET i == batches[b].first + k - 1
                     IN  /\ translations[i].text = batches[b].texts[k]
                         /\ (translations[i].fetched /\ GotTranslation(i))
                               => batches[b].results[k] = Extract(translations[i].body).translated
                         /\ (translations[i].fetched /\ ~GotTranslation(i))
                               => batches[b].results[k] = batches[b].texts[k]

\* C23 witness: a batch of two whose first request rejected and whose second
\* returned a translation.
BatchSurvivedOneFailure ==
    \E b \in DOMAIN batches :
        /\ batches[b].state = "resolved"
        /\ batches[b].texts = << <<"h", "i">>, <<"h", "i">> >>
        /\ translations[batches[b].first].outcome = "reject"
        /\ batches[b].results = << <<"h", "i">>, <<"H", "i", " ", "Y", "o">> >>

(***************************************************************************)
(* Feed pagination properties.                                             *)
(***************************************************************************)
\* C24: a step of the scroll listener that starts a load (the only step that
\* moves page up by one) is taken with hasMore true and with no request of the
\* feed it continues still unresolved.
ScrollLoadsOnlyWhenIdle ==
    [][ (page' = page + 1 /\ Len(feedInFlight') > Len(feedInFlight))
            => /\ hasMore
               /\ \A i \in DOMAIN feedInFlight : feedInFlight[i].feedKey # feedKeyRef'
      ]_vars

NoRepeat(list) == \A i, j \in DOMAIN list : list[i] = list[j] => i = j

\* C25 as stated: in the search view the accumulated list never holds the
\* same video twice.
SearchListNeverRepeats == viewMode = "search" => NoRepeat(videos)

\* C25, amended: in the search view, a response whose own page holds no video
\* twice leaves the accumulated list without a repeat if it had none, whether
\* the page replaces the list or is appended to it and however it overlaps the
\* pages before it.
SearchPagesAppendWithoutRepeat ==
    [][ (viewMode = "search" /\ feedLast'.kind = "response" /\ NoRepeat(feedLast'.videos)
            /\ NoRepeat(videos))
            => NoRepeat(videos')
      ]_vars

\* C25 witness: the second search page repeated the video of the first and
\* only its new video was appended.
OverlappingSearchPageAppended ==
    /\ viewMode = "search"
    /\ feedLast.kind = "response"
    /\ ~feedLast.stale
    /\ feedLast.pageNum = 2
    /\ feedLast.videos = <<1, 2>>
    /\ videos = <<2, 1>>

\* C26: resolveHasMore returns the explicit hasMore of the result when it is
\* a boolean; else, with a positive total, whether pageNum * pageSize is below
\* the total; else whether the page holds exactly pageSize videos (pageSize
\* being the result's, or FEED_PAGE_SIZE when it has none).
HasMoreResolvedInOrder ==
    LET r == resolved.result
        size == IF r.pageSize = None THEN FEED_PAGE_SIZE ELSE r.pageSize[1]
        explicit == r.hasMore \in {"true", "false"}
        counted == r.total # None /\ r.total[1] > 0
    IN  resolved.pageNum > 0
            => /\ explicit => (resolved.value <=> r.hasMore = "true")
               /\ (~explicit /\ counted)
                     => (resolved.value <=> resolved.pageNum * size < r.total[1])
               /\ (~explicit /\ ~counted) => (resolved.value <=> Len(r.videos) = size)

\* C26 witness: no explicit flag, a total that is exhausted by page 1, and a
\* full page: the total decides, and the answer is no.
TotalDecidesBeforeLength ==
    /\ resolved.pageNum = 1
    /\ resolved.result.hasMore = "absent"
    /\ resolved.result.total = Some(FEED_PAGE_SIZE)
    /\ resolved.result.pageSize = None
    /\ resolved.result.videos = FullPage
    /\ resolved.value = FALSE

(***************************************************************************)
(* getVideoComments properties.                                            *)
(***************************************************************************)
\* The call went through its candidate loop and returned.
CommentsReturned == commentsCall.state = "done" /\ commentsCall.urls # <<>>

Succeeded(try) == try.outcome = "ok"

\* C27: a returned call tried its candidates in the order of the list, each
\* one after the failure of the one before; it used the first that was
\* accepted, and it returned the empty result, with an error string, only
\* after every candidate had failed.
CandidatesTriedInOrder ==
    CommentsReturned
        => LET tried == commentsCall.tried
               n == Len(tried)
           IN  /\ n >= 1
               /\ \A k \in 1..n : tried[k].label = commentsCall.urls[k]
               /\ \A k \in 1..(n - 1) : ~Succeeded(tried[k])
               /\ IF Succeeded(tried[n])
                  THEN commentsCall.result.error = None
                  ELSE /\ n = Len(commentsCall.urls)
                       /\ commentsCall.result.error # None
                       /\ commentsCall.result.comments = 0

\* C28: for a page made of accepted data, hasMore is the negation of the
\* end flag where the data has one and (page < ceil(total / pageSize))
\* otherwise, and nextCursor is there exactly when hasMore is true.
CommentsHasMoreAsDocumented ==
    (CommentsReturned /\ Succeeded(commentsCall.tried[Len(commentsCall.tried)]))
        => LET data == commentsCall.data
               result == commentsCall.result
           IN  /\ result.hasMore =
                     IF data.isEnd # "absent" THEN data.isEnd = "false"
                     ELSE result.page < Ceil(data.total, COMMENTS_PAGE_SIZE)
               /\ (result.nextCursor # None) = result.hasMore

InnerStatus(st) ==
    /\ authLast.op = "checkQRCodeStatus"
    /\ ~authLast.poll.thrown
    /\ authLast.poll.code = 0
    /\ authLast.poll.status = st

\* C30: checkQRCodeStatus maps inner status 86101 to "Waiting for scan...",
\* 86090 to "Scanned - please confirm on your phone", 86038 to "QR code
\* expired" and 0 to "Login successful"; its result carries a cookies string
\* only for inner status 0, and only then has it set the session cookie of
\* the API client.
QRStatusMapped ==
    /\ InnerStatus(86101) => authLast.message = "Waiting for scan..."
    /\ InnerStatus(86090) => authLast.message = "Scanned - please confirm on your phone"
    /\ InnerStatus(86038) => authLast.message = "QR code expired"
    /\ InnerStatus(0) => authLast.message = "Login successful"
    /\ authLast.op = "checkQRCodeStatus"
          => /\ authLast.code = (IF authLast.poll.thrown THEN -1
                                  ELSE IF authLast.poll.code # 0 THEN authLast.poll.code
                                  ELSE authLast.poll.status)
             /\ authLast.given # NoCookies => InnerStatus(0)
             /\ storedCookies # authLast.memoryBefore => InnerStatus(0)

\* C30 witness: a poll answered with inner status 0 and a url that carries
\* the session parameters returned the cookie string and set it.
LoginPollCarriedCookies ==
    /\ InnerStatus(0)
    /\ authLast.message = "Login successful"
    /\ authLast.given = << <<"SESSDATA", "b">>, <<"bili_jct", "x">> >>
    /\ storedCookies = authLast.given
    /\ authLast.memoryBefore = NoCookies

(***************************************************************************)
(* VideoPlayer shortcut properties.                                        *)
(***************************************************************************)
\* An Escape press outside the text inputs is the step being taken.
EscapePressed == keysLast'.what = "key" /\ keysLast'.key = "Escape" /\ ~keysLast'.inInput

DTogglesMenuWhenIdle ==
    (keysLast.what = "key" /\ keysLast.key = "d" /\ ~keysLast.inInput)
       => ((showDownloadMenu # keysLast.before.menu)
              <=> (keysLast.before.qualities > 0 /\ ~keysLast.before.active))

(***************************************************************************)
(* Progress events of one downloadVideo call.                              *)
(***************************************************************************)
\* Event k of a call may follow the event before it.
EventInOrder(events, k) ==
    LET status == events[k].status
        previous == IF k = 1 THEN "none" ELSE events[k - 1].status
    IN  /\ events[k].progress \in 0..100
        /\ CASE status = "pending" -> previous = "none"
              [] status = "downloading" -> previous \in {"pending", "downloading"}
              [] status = "merging" ->
                     /\ previous \in {"pending", "downloading"}
                     /\ events[k].progress = 95
                     /\ k < Len(events) /\ events[k + 1].status = "completed"
              [] status = "completed" ->
                     previous = "merging" /\ events[k].progress = 100 /\ k = Len(events)
              [] status = "error" ->
                     previous \in {"pending", "downloading"} /\ k = Len(events)
              [] OTHER -> FALSE

\* C33: the progress events of every downloadVideo call come in the order
\* 'pending', then 'downloading' events with a progress between 0 and 100,
\* then either 'merging' at 95 and one 'completed' at 100 or one 'error';
\* nothing follows 'completed' or 'error', and a file is saved only by a call
\* that reports 'completed'.
ProgressEventsInOrder ==
    \A i \in 1..Len(downloads) :
        LET events == downloads[i].events
        IN  /\ events # <<>> /\ events[1].status = "pending"
            /\ \A k \in DOMAIN events : EventInOrder(events, k)
            /\ downloads[i].saved => events[Len(events)].status = "completed"
            /\ events[Len(events)].status \in {"completed", "error"}
                   => downloads[i].pc = "done"

\* C33 witness: a call whose chunk overshot the declared length reported
\* 100 for it, then 'merging' and 'completed', and saved its file.
DownloadCompletedAfterOvershoot ==
    \E i \in 1..Len(downloads) :
        /\ downloads[i].saved
        /\ downloads[i].receivedLength > downloads[i].contentLength
        /\ downloads[i].contentLength > 0
        /\ [k \in DOMAIN downloads[i].events |->
               <<downloads[i].events[k].status, downloads[i].events[k].progress>>]
              = << <<"pending", 0>>, <<"downloading", 0>>, <<"downloading", 100>>,
                   <<"merging", 95>>, <<"completed", 100>> >>

(***************************************************************************)
(* Feed list against the pages of the current feed.                        *)
(***************************************************************************)
\* C34: the answer to a request that was issued before the most recent page-1
\* reset of its feed is never appended to or substituted into the video list.
AnswerFromBeforeResetNeverApplied ==
    [][ (feedLast'.kind = "response" /\ feedLast'.superseded) => videos' = videos ]_vars

\* The feed key of what the shell shows: the view, the category, the query and
\* the selected filters.
ShownFeedKey ==
    CASE viewMode = "home" -> HomeKey
      [] viewMode = "category" -> CategoryKey(selectedCategory)
      [] OTHER -> SearchKey(searchQuery, Some(searchFilters))

PlaylistContextTracksOpenVideo ==
    playlistContext # None
       => selectedVideo = Some(playlistContext[1].videos[playlistContext[1].currentIndex])

(***************************************************************************)
(* useAuth properties.                                                     *)
(***************************************************************************)
\* C36: once logout() has completed, an auth check that was in flight when
\* logout was called does not bring the user back.
LogoutNotUndoneByEarlierCheck ==
    (hookLast.kind = "resolved" /\ hookLast.overtaken /\ logoutsInFlight = 0)
       => ~authUser

(***************************************************************************)
(* Persistence hook against its store.                                     *)
(***************************************************************************)
\* C37: once the initial load and every mutator call issued so far have
\* completed, the list of the hook is the stored list, entry by entry.
HookMatchesStoreWhenSettled ==
    (favoritesMounted /\ favoriteCalls = <<>>) => favorites = favoritesStore

\* C38: two toggleFavorite calls for one video, the first issued on a settled
\* hook and nothing else called, leave the video in the hook and in the store
\* exactly if it was there before the first call.
TwoTogglesRestoreMembership ==
    (/\ favoritesMounted /\ favoriteCalls = <<>>
     /\ Len(toggleLog) = 2
     /\ toggleLog[1].toggle /\ toggleLog[2].toggle
     /\ toggleLog[1].settled
     /\ toggleLog[1].bvid = toggleLog[2].bvid)
       => /\ IsFav(favorites, toggleLog[1].bvid) = toggleLog[1].inHook
          /\ IsFav(favoritesStore, toggleLog[1].bvid) = toggleLog[1].inStore

(***************************************************************************)
(* Settings hook properties.                                               *)
(***************************************************************************)
\* C39: when two updateSetting calls for different keys and the initial load
\* have completed, the settings of the hook and the stored record both hold
\* the two new values.
BothSettingUpdatesTakeEffect ==
    (/\ settingsMounted /\ settingsCalls = <<>>
     /\ Len(updateLog) = 2
     /\ updateLog[1].key # updateLog[2].key)
       => \A n \in 1..2 :
             /\ hookSettings[updateLog[n].key] = updateLog[n].value
             /\ savedSettings # None
             /\ savedSettings[1][updateLog[n].key] = updateLog[n].value

====
